---- MODULE Spec2Model ----
(***************************************************************************)
(* Model of the page-scroll video recorder, record.cjs                     *)
(* (src/unnamed/part_007): argument parsing, the two-pass browser          *)
(* lifecycle, the fixed-step scroll loop, the ffmpeg transcode with its    *)
(* WebM fallback, the two-pass GIF derivation and the final cleanup.       *)
(*                                                                         *)
(* JavaScript strings are TLA+ strings (Len, SubSeq and \o act on them).   *)
(* A JavaScript value is a record [t, s, n]: t is its type tag, s its      *)
(* string content, n its numeric content in thousandths (so 0.025 is       *)
(* n = 25 and 300 is n = 300000); arithmetic on numbers is exact on that   *)
(* grid.  NaN and Infinity are values of their own, as in the language.    *)
(*                                                                         *)
(* Environment.  The page operations that depend on the page or the        *)
(* network (goto, the overlay injection, the evaluate calls of the scroll  *)
(* loop) may reject, and so may chromium.launch; the operations on the     *)
(* local browser (newContext, newPage, waitForTimeout, title, close) and   *)
(* fs.rmSync are taken to succeed.  Each ffmpeg run either succeeds or     *)
(* fails, and a failed run may leave a partial output file.  What the      *)
(* recording session leaves in its directory is drawn from                 *)
(* CaptureListings.  The file system starts without files; touched keeps   *)
(* every path the run wrote, also after the file has been removed.         *)
(*                                                                         *)
(* Specifications.  Spec is one run of the recorder from process start to  *)
(* exit.  SpecArgs is the start of the process for every short argument    *)
(* list; SpecEscape is the overlay injection of the setup pass for pages   *)
(* with arbitrary short titles; SpecPair is two runs on one file system;  *)
(* SpecScroll is the scroll loop on a page that moves its own scroll       *)
(* position.  SpecTools is a run of one of the companion scripts of the    *)
(* browser-screenshots skill (src/unnamed/part_004) and SpecVscode a run   *)
(* of the VSCode capture tool (vscode-screenshots/scripts/capture.cjs).    *)
(***************************************************************************)
EXTENDS Integers, Sequences, FiniteSets, TLC

----------------------------------------------------------------------------
(* JavaScript values *)

Null      == [t |-> "null",      s |-> "", n |-> 0]
Undefined == [t |-> "undefined", s |-> "", n |-> 0]
NaN       == [t |-> "NaN",       s |-> "", n |-> 0]
Infinity  == [t |-> "Infinity",  s |-> "", n |-> 0]
Str(x)    == [t |-> "string",    s |-> x,  n |-> 0]
Num(k)    == [t |-> "number",    s |-> "", n |-> k]

\* thousandths per unit of the numeric grid
Scale == 10 * 10 * 10

Int2Num(k) == Num(k * Scale)

\* !v of the language: null, undefined, "", 0 and NaN are falsy
Falsy(v) ==
  \/ v.t \in {"null", "undefined", "NaN"}
  \/ v.t = "string" /\ v.s = ""
  \/ v.t = "number" /\ v.n = 0

\* a > 0 of the language: true for Infinity, false for NaN, null and
\* undefined; a numeric
\* string compares by its numeric value, which the options never hold here
GtZero(v) == v.t = "Infinity" \/ (v.t = "number" /\ v.n > 0)

----------------------------------------------------------------------------
(* String helpers: String.prototype.indexOf / replace / endsWith,          *)
(* path.dirname, path.join                                                 *)

CharAt(s, i) == SubSeq(s, i, i)

IndexOf(s, pat) ==
  LET m == Len(pat)
      hits == {i \in 1..(Len(s) - m + 1) : SubSeq(s, i, i + m - 1) = pat}
  IN IF hits = {} THEN 0 ELSE CHOOSE i \in hits : \A j \in hits : i <= j

LastIndexOf(s, pat) ==
  LET m == Len(pat)
      hits == {i \in 1..(Len(s) - m + 1) : SubSeq(s, i, i + m - 1) = pat}
  IN IF hits = {} THEN 0 ELSE CHOOSE i \in hits : \A j \in hits : j <= i

\* s.replace(pat, rep) with a string pattern: the FIRST occurrence only
ReplaceFirst(s, pat, rep) ==
  LET i == IndexOf(s, pat)
  IN IF i = 0 THEN s
     ELSE SubSeq(s, 1, i - 1) \o rep \o SubSeq(s, i + Len(pat), Len(s))

EndsWith(s, suf) ==
  /\ Len(s) >= Len(suf)
  /\ SubSeq(s, Len(s) - Len(suf) + 1, Len(s)) = suf

\* path.dirname for the relative and absolute paths used here
Dirname(p) ==
  LET i == LastIndexOf(p, "/")
  IN IF i = 0 THEN "." ELSE IF i = 1 THEN "/" ELSE SubSeq(p, 1, i - 1)

PathJoin(d, f) == d \o "/" \o f

----------------------------------------------------------------------------
(* parseFloat and parseInt(_, 10) on the decimal grid *)

Digits == {"0", "1", "2", "3", "4", "5", "6", "7", "8", "9"}

DigitVal(c) ==
  CASE c = "0" -> 0 [] c = "1" -> 1 [] c = "2" -> 2 [] c = "3" -> 3
    [] c = "4" -> 4 [] c = "5" -> 5 [] c = "6" -> 6 [] c = "7" -> 7
    [] c = "8" -> 8 [] c = "9" -> 9

RECURSIVE DigitsEnd(_, _)
\* index just after the run of digits that starts at i
DigitsEnd(s, i) ==
  IF i <= Len(s) /\ CharAt(s, i) \in Digits THEN DigitsEnd(s, i + 1) ELSE i

RECURSIVE DigitsValue(_, _, _)
\* value of the digits s[i .. j-1]
DigitsValue(s, i, j) ==
  IF j <= i THEN 0
  ELSE DigitsValue(s, i, j - 1) * 10 + DigitVal(CharAt(s, j - 1))

\* the argument of parseFloat/parseInt is converted to a string first:
\* undefined becomes "undefined", which holds no digit
ToStringArg(v) == IF v.t = "string" THEN v.s ELSE v.t

SignLen(s) == IF Len(s) >= 1 /\ CharAt(s, 1) \in {"-", "+"} THEN 1 ELSE 0

SignOf(s) == IF Len(s) >= 1 /\ CharAt(s, 1) = "-" THEN -1 ELSE 1

parseInt(v) ==
  LET s    == ToStringArg(v)
      i    == SignLen(s) + 1
      iend == DigitsEnd(s, i)
  IN IF iend = i THEN NaN
     ELSE Num(SignOf(s) * DigitsValue(s, i, iend) * Scale)

\* fraction digits beyond the third are below the grid and are dropped
parseFloat(v) ==
  LET s      == ToStringArg(v)
      i      == SignLen(s) + 1
      iend   == DigitsEnd(s, i)
      hasDot == iend <= Len(s) /\ CharAt(s, iend) = "."
      f      == iend + 1
      fend   == IF hasDot THEN DigitsEnd(s, f) ELSE f
      fcut   == IF fend - f > 3 THEN f + 3 ELSE fend
      pad    == CASE fcut - f = 0 -> 1000 [] fcut - f = 1 -> 100
                  [] fcut - f = 2 -> 10 [] OTHER -> 1
      frac   == IF hasDot THEN DigitsValue(s, f, fcut) * pad ELSE 0
  IN IF iend = i /\ (~hasDot \/ fend = f) THEN NaN
     ELSE Num(SignOf(s) * (DigitsValue(s, i, iend) * Scale + IF fend > f THEN frac ELSE 0))

----------------------------------------------------------------------------
(* Module constants of record.cjs *)

DEFAULT_WIDTH        == 900
DEFAULT_HEIGHT       == 900
DEFAULT_DURATION     == 10
DEFAULT_SCROLL_SPEED == 300
GIF_LOOP_COUNT       == 0
SCROLL_FPS           == 60
DEFAULT_WAIT         == 3000
DEFAULT_TRIM         == 3

----------------------------------------------------------------------------
(* parseArgs *)

DefaultOptions ==
  [ url      |-> Null,
    output   |-> Null,
    duration |-> Int2Num(DEFAULT_DURATION),
    speed    |-> Int2Num(DEFAULT_SCROLL_SPEED),
    wait     |-> Int2Num(DEFAULT_WAIT),
    trim     |-> Int2Num(DEFAULT_TRIM),
    title    |-> Null,
    noGif    |-> FALSE,
    width    |-> Int2Num(DEFAULT_WIDTH),
    height   |-> Int2Num(DEFAULT_HEIGHT) ]

ArgAfterUnadvanced(a, i) == Str(a[i])

\* args[++i]: the next element, undefined past the end of the array
ArgAfter(a, i) == IF i + 1 <= Len(a) THEN Str(a[i + 1]) ELSE Undefined

RECURSIVE parseArgsLoop(_, _, _)
parseArgsLoop(a, i, o) ==
  IF i > Len(a) THEN o
  ELSE LET v == ArgAfter(a, i) IN
    CASE a[i] = "--url"      -> parseArgsLoop(a, i + 2, [o EXCEPT !.url = v])
      [] a[i] = "--output"   -> parseArgsLoop(a, i + 2, [o EXCEPT !.output = v])
      [] a[i] = "--duration" -> parseArgsLoop(a, i + 2, [o EXCEPT !.duration = parseFloat(v)])
      [] a[i] = "--speed"    -> parseArgsLoop(a, i + 2, [o EXCEPT !.speed = parseFloat(v)])
      [] a[i] = "--wait"     -> parseArgsLoop(a, i + 2, [o EXCEPT !.wait = parseInt(v)])
      [] a[i] = "--trim"     -> parseArgsLoop(a, i + 2, [o EXCEPT !.trim = parseFloat(v)])
      [] a[i] = "--title"    -> parseArgsLoop(a, i + 2, [o EXCEPT !.title = v])
      [] a[i] = "--no-gif"   -> parseArgsLoop(a, i + 1, [o EXCEPT !.noGif = TRUE])
      [] a[i] = "--width"    -> parseArgsLoop(a, i + 2, [o EXCEPT !.width = parseInt(v)])
      [] a[i] = "--height"   -> parseArgsLoop(a, i + 2, [o EXCEPT !.height = parseInt(v)])
      [] OTHER               -> parseArgsLoop(a, i + 1, o)

parseArgs(a) == parseArgsLoop(a, 1, DefaultOptions)

----------------------------------------------------------------------------
(* new URL(options.url): hostname + pathname.  A string without "://" is   *)
(* not an absolute URL and makes the constructor throw.                    *)

UrlValid(u) ==
  LET i == IndexOf(u, "://") IN i > 1 /\ Len(u) >= i + 3

UrlRest(u) == SubSeq(u, IndexOf(u, "://") + 3, Len(u))

UrlHostname(u) ==
  LET r == UrlRest(u)
      i == IndexOf(r, "/")
  IN IF i = 0 THEN r ELSE SubSeq(r, 1, i - 1)

UrlPathname(u) ==
  LET r == UrlRest(u)
      i == IndexOf(r, "/")
  IN IF i = 0 THEN "/" ELSE SubSeq(r, i, Len(r))

DisplayUrl(u) == UrlHostname(u) \o UrlPathname(u)

----------------------------------------------------------------------------
(* Numbers of scrollForDuration *)

\* Math.ceil(a / k) for a number a and a positive integer constant k
CeilDiv(a, k) ==
  IF a.t # "number" THEN NaN
  ELSE Num((-((-a.n) \div (k * Scale))) * Scale)

\* Math.max(1, a): NaN if a is NaN
Max1(a) ==
  IF a.t # "number" THEN NaN
  ELSE IF a.n < Scale THEN Num(Scale) ELSE a

\* Math.round(a * k): halves round towards plus infinity
RoundMul(a, k) ==
  IF a.t # "number" THEN NaN
  ELSE Num(((a.n * k + Scale \div 2) \div Scale) * Scale)

\* a + b
Plus(a, b) ==
  IF a.t # "number" \/ b.t # "number" THEN NaN ELSE Num(a.n + b.n)

\* frame < totalFrames, frame an integer counter: false when the bound is NaN
FrameBelow(frame, total) == total.t = "number" /\ frame * Scale < total.n

----------------------------------------------------------------------------
(* The browser chrome overlay.  The markup is abridged to the elements     *)
(* that carry the two embedded texts; the style sheet to the rules that    *)
(* use the chrome constants.                                               *)

CHROME_HEIGHT == 64
CHROME_BORDER == 5

\* text.replace(/c/g, rep) for a single character c
RECURSIVE ReplaceAll(_, _, _)
ReplaceAll(text, c, rep) ==
  IF Len(text) = 0 THEN ""
  ELSE (IF CharAt(text, 1) = c THEN rep ELSE CharAt(text, 1))
       \o ReplaceAll(SubSeq(text, 2, Len(text)), c, rep)

escapeHtmlAmpLast(text) ==
  ReplaceAll(ReplaceAll(ReplaceAll(ReplaceAll(ReplaceAll(text,
    "<", "&lt;"), ">", "&gt;"), "\"", "&quot;"), "'", "&#039;"), "&", "&amp;")

escapeHtml(text) ==
  ReplaceAll(ReplaceAll(ReplaceAll(ReplaceAll(ReplaceAll(text,
    "&", "&amp;"), "<", "&lt;"), ">", "&gt;"), "\"", "&quot;"), "'", "&#039;")

getBrowserChromeOverlay(title, displayUrl) ==
  [css  |-> "#browser-chrome-overlay{height:" \o ToString(CHROME_HEIGHT)
            \o "px}#browser-frame-bottom{height:" \o ToString(CHROME_BORDER)
            \o "px}html{margin-top:" \o ToString(CHROME_HEIGHT)
            \o "px;margin-left:" \o ToString(CHROME_BORDER) \o "px}",
   html |-> "<div id=\"browser-chrome-overlay\"><div class=\"title\">"
            \o escapeHtml(title)
            \o "</div><span class=\"url-text\">"
            \o escapeHtml(displayUrl)
            \o "</span></div><div id=\"browser-frame-left\"></div>"]

\* what injectBrowserChrome adds to the page: the style tag and the markup
injectBrowserChrome(page, title, displayUrl) ==
  LET chrome == getBrowserChromeOverlay(title.s, displayUrl)
  IN [page |-> page, title |-> title, url |-> displayUrl,
      css |-> chrome.css, html |-> chrome.html]

----------------------------------------------------------------------------
(* Time.  The clock of the recording counts ticks of 1/SCROLL_FPS of a     *)
(* millisecond, so that the sleep of one scroll step, 1000 / SCROLL_FPS    *)
(* milliseconds, is a whole number of ticks.  A sleep lasts what was asked *)
(* for; the injection and the evaluate calls take no time.                 *)

TicksPerMs == SCROLL_FPS

\* const msPerFrame = 1000 / SCROLL_FPS, in ticks
MsPerFrame == (Scale * TicksPerMs) \div SCROLL_FPS

\* a number of seconds, in ticks
SecondsTicks(v) == v.n * TicksPerMs

LengthFromIgnoringSs(length, ss) == length

\* ffmpeg -ss <ss> -i <capture>: the output starts ss seconds into the
\* input and runs to its end; without the flag it is the whole input
LengthFrom(length, ss) ==
  IF ss = Null THEN length
  ELSE IF SecondsTicks(ss) >= length THEN 0 ELSE length - SecondsTicks(ss)

----------------------------------------------------------------------------
(* Bounds of the model and the inputs drawn from them *)

\* window.scrollY of the freshly loaded page lies in 0..MaxInitialScrollY
MaxInitialScrollY == 1

\* the page cannot be scrolled past this offset (window.scrollTo clamps)
PageScrollLimit == 7

\* os.tmpdir()
OsTmpDir == "/tmp"

\* the six characters mkdtempSync appends
TempSuffixes == {"Xa91Qz"}

\* document titles the page may have
PageTitles == {"First map", "Loading"}

\* milliseconds page.goto takes until the network is idle
NavigationMillis == {500, 1500}

HelpArgs  == { <<>>, <<"--help">> }
UrlArgs   == { <<>>, <<"--url", "https://example.com/map">>,
               <<"--url", "example.com">>, <<"--url">> }
OutArgs   == { <<>>, <<"--output", "out.mp4">>, <<"--output", "clips.mp4/out.mp4">>,
               <<"--output", "out.mov">>, <<"--output", "site/out.mp4">> }
DurArgs   == { <<>>, <<"--duration", "0.05">>, <<"--duration", "0.025">>,
               <<"--duration", "-1">>, <<"--duration">> }
SpeedArgs == { <<>>, <<"--speed", "0">>, <<"--speed", "61">>, <<"--speed", "fast">> }
GifArgs   == { <<>>, <<"--no-gif">> }

TrimArgs  == { <<>>, <<"--trim", "0">>, <<"--trim", "0.025">>, <<"--trim", "-2">>,
               <<"--trim", "9">>, <<"--trim", "soon">> }
WaitArgs  == { <<>>, <<"--wait", "0">>, <<"--wait", "250">> }
TitleArgs == { <<>>, <<"--title", "Demo <1> & \"2\"">>, <<"--title", "">> }

\* runs with an explicit, short scroll duration
ShortRunLists ==
  { h \o u \o o \o d \o s \o g :
      h \in HelpArgs, u \in UrlArgs, o \in OutArgs,
      d \in DurArgs \ {<<>>}, s \in SpeedArgs, g \in GifArgs }

\* runs with the default duration and speed
DefaultRunLists ==
  { h \o u \o o \o g :
      h \in HelpArgs, u \in UrlArgs, o \in OutArgs, g \in GifArgs }

\* short runs with --trim, --wait and --title
TimingLists ==
  { <<"--url", "https://example.com/map", "--output", "out.mp4",
      "--duration", "0.05">> \o t \o w \o n :
      t \in TrimArgs, w \in WaitArgs, n \in TitleArgs }

ArgLists == ShortRunLists \cup DefaultRunLists \cup TimingLists

\* directories that exist before the run, besides the working directory
\* and os.tmpdir()
PreDirs == { {}, {"clips.webm"} }

\* what the recording session leaves in its video directory when closed
CaptureListings == { <<>>, <<"page@3f9a.webm">>, <<"page@3f9a.webm.part">> }

Range(f) == { f[i] : i \in DOMAIN f }

----------------------------------------------------------------------------
VARIABLES
  args,           \* process.argv.slice(2)
  pc,             \* position of the single thread of control
  options,        \* result of parseArgs
  exitCode,       \* process exit status, -1 while running
  reported,       \* messages written with console.error
  err,            \* "" or the step whose exception is propagating
  dirs,           \* directories that exist
  files,          \* path -> content of the files that exist
  touched,        \* every [path, by] the run created or modified
  tempDir,        \* the mkdtempSync directory, "" before it is created
  displayUrl,
  browser,        \* "none", "open", "closed"
  setupContext,   \* [state, videoDir, gotos]
  recordContext,  \* [state, videoDir, gotos]
  docTitle,       \* the page's own <title>
  pageTitle,      \* title shown in the overlay
  injected,       \* overlays injected, in order: [page, title, url, css, html]
  waits,          \* waitForTimeout calls outside the scroll loop: [page, ms]
  pageY,          \* the page's real window.scrollY
  pixelsPerFrame, totalFrames, currentScrollY, frame,
  firstScrollY,   \* the offset read before the loop
  scrollCalls,    \* number of window.scrollTo calls made
  tempListing,    \* names readdirSync(tempDir) returns
  recordedVideo,  \* path of the raw capture picked, "" before
  mp4Success,     \* "unset", "true", "false"
  encoderCalls,   \* ffmpeg invocations in order: [tool, in, out, ss, ok]
  launches,       \* browsers chromium.launch has started
  gifInvoked,     \* generateGif calls in order: [mp4Path, gifPath]
  recClock,       \* ticks the recording page has existed for
  captureLength,  \* ticks of video in the raw capture, -1 before the flush
  videoLength,    \* ticks of video in the transcoded file, -1 before
  pair,           \* the two concurrent runs of SpecPair, << >> in a single run
  companion       \* state of a run of one of the companion scripts (screenshot
                  \* tool, fixed-duration recorder, VSCode capture), << >> otherwise

vars == << args, pc, options, exitCode, reported, err, dirs, files, touched,
           tempDir, displayUrl, browser, setupContext, recordContext, docTitle,
           pageTitle, injected, waits, pageY, pixelsPerFrame, totalFrames,
           currentScrollY, frame, firstScrollY, scrollCalls, tempListing,
           recordedVideo, mp4Success, encoderCalls, launches, gifInvoked,
           recClock, captureLength, videoLength, pair, companion >>

fsVars     == << dirs, files, touched >>
scrollVars == << pageY, pixelsPerFrame, totalFrames, currentScrollY, frame,
                 firstScrollY, scrollCalls >>
pageVars   == << setupContext, recordContext, pageTitle, injected, waits >>
encVars    == << tempListing, recordedVideo, mp4Success, encoderCalls >>
histVars   == << launches, gifInvoked, pair, companion >>
timeVars   == << recClock, captureLength, videoLength >>

NoContext == [state |-> "none", videoDir |-> "", gotos |-> 0]

Init ==
  /\ args \in ArgLists
  /\ pc = "main"
  /\ options = DefaultOptions
  /\ exitCode = -1
  /\ reported = {}
  /\ err = ""
  /\ \E pre \in PreDirs : dirs = {".", OsTmpDir} \cup pre
  /\ files = << >>
  /\ touched = {}
  /\ tempDir = ""
  /\ displayUrl = ""
  /\ browser = "none"
  /\ setupContext = NoContext
  /\ recordContext = NoContext
  /\ docTitle \in PageTitles
  /\ pageTitle = Null
  /\ injected = << >>
  /\ waits = << >>
  /\ pageY = 0
  /\ pixelsPerFrame = Null
  /\ totalFrames = Null
  /\ currentScrollY = Null
  /\ frame = 0
  /\ firstScrollY = Null
  /\ scrollCalls = 0
  /\ tempListing = << >>
  /\ recordedVideo = ""
  /\ mp4Success = "unset"
  /\ encoderCalls = << >>
  /\ launches = 0
  /\ gifInvoked = << >>
  /\ recClock = 0
  /\ captureLength = -1
  /\ videoLength = -1
  /\ pair = << >>
  /\ companion = << >>

----------------------------------------------------------------------------
(* File system helpers *)

Exists(fs, p) == p \in DOMAIN fs

WriteFile(fs, p, c) == [q \in DOMAIN fs \cup {p} |-> IF q = p THEN c ELSE fs[q]]

RemoveFile(fs, p) == [q \in DOMAIN fs \ {p} |-> fs[q]]

\* p lies below directory d
Inside(p, d) == Len(p) > Len(d) + 1 /\ SubSeq(p, 1, Len(d) + 1) = d \o "/"

\* fs.rmSync(d, { recursive: true }) on the files
RemoveTree(fs, d) == [q \in {r \in DOMAIN fs : ~Inside(r, d)} |-> fs[q]]

Content(kind, from, ss) == [kind |-> kind, from |-> from, ss |-> ss]

----------------------------------------------------------------------------
(* Main execution: help, parseArgs, and the call of recordVideo *)

ShowsHelp(a) == Len(a) = 0 \/ "--help" \in Range(a)

Main ==
  /\ pc = "main"
  /\ \/ /\ ShowsHelp(args)
        /\ pc' = "exited"
        /\ exitCode' = 0
        /\ UNCHANGED options
     \/ /\ ~ShowsHelp(args)
        /\ options' = parseArgs(args)
        /\ pc' = "validate"
        /\ UNCHANGED exitCode
  /\ UNCHANGED << args, reported, err, fsVars, tempDir, displayUrl, browser,
                  docTitle, pageVars, scrollVars, encVars >>
  /\ UNCHANGED << histVars, timeVars >>

(* recordVideo: validation of the required options *)

ValidateUrlOnly ==
  /\ pc = "validate"
  /\ \/ /\ Falsy(options.url)
        /\ reported' = reported \cup {"Error: --url is required"}
        /\ pc' = "exited"
        /\ exitCode' = 1
     \/ /\ ~Falsy(options.url)
        /\ pc' = "prepare"
        /\ UNCHANGED << reported, exitCode >>
  /\ UNCHANGED << args, options, err, fsVars, tempDir, displayUrl, browser,
                  docTitle, pageVars, scrollVars, encVars >>
  /\ UNCHANGED << histVars, timeVars >>

Validate ==
  /\ pc = "validate"
  /\ \/ /\ Falsy(options.url)
        /\ reported' = reported \cup {"Error: --url is required"}
        /\ pc' = "exited"
        /\ exitCode' = 1
     \/ /\ ~Falsy(options.url)
        /\ Falsy(options.output)
        /\ reported' = reported \cup {"Error: --output is required"}
        /\ pc' = "exited"
        /\ exitCode' = 1
     \/ /\ ~Falsy(options.url)
        /\ ~Falsy(options.output)
        /\ pc' = "prepare"
        /\ UNCHANGED << reported, exitCode >>
  /\ UNCHANGED << args, options, err, fsVars, tempDir, displayUrl, browser,
                  docTitle, pageVars, scrollVars, encVars >>
  /\ UNCHANGED << histVars, timeVars >>

(* recordVideo: output directory, temporary directory, display URL.  These *)
(* statements run synchronously, outside the try block; an exception of    *)
(* the URL constructor rejects the promise recordVideo returned.           *)

Prepare ==
  /\ pc = "prepare"
  /\ \E suffix \in TempSuffixes :
       LET outputDir == Dirname(options.output.s)
           tmp       == PathJoin(OsTmpDir, "page-scroll-" \o suffix)
       IN /\ tempDir' = tmp
          /\ dirs' = dirs \cup {outputDir, tmp}
  /\ \/ /\ UrlValid(options.url.s)
        /\ displayUrl' = DisplayUrl(options.url.s)
        /\ pc' = "launch"
        /\ UNCHANGED err
     \/ /\ ~UrlValid(options.url.s)
        /\ err' = "url"
        /\ pc' = "rejected"
        /\ UNCHANGED displayUrl
  /\ UNCHANGED << args, options, exitCode, reported, files, touched, browser,
                  docTitle, pageVars, scrollVars, encVars >>
  /\ UNCHANGED << histVars, timeVars >>

(* chromium.launch, still outside the try block *)

Launch ==
  /\ pc = "launch"
  /\ \/ /\ browser' = "open"
        /\ launches' = launches + 1
        /\ pc' = "newSetupContext"
        /\ UNCHANGED err
     \/ /\ err' = "launch"
        /\ pc' = "rejected"
        /\ UNCHANGED << browser, launches >>
  /\ UNCHANGED << args, options, exitCode, reported, fsVars, tempDir, displayUrl,
                  docTitle, pageVars, scrollVars, encVars >>
  /\ UNCHANGED << gifInvoked, pair, companion, timeVars >>

----------------------------------------------------------------------------
(* The setup pass *)

NewSetupContext ==
  /\ pc = "newSetupContext"
  /\ setupContext' = [state |-> "open", videoDir |-> "", gotos |-> 0]
  /\ pc' = "setupGoto"
  /\ UNCHANGED << args, options, exitCode, reported, err, fsVars, tempDir,
                  displayUrl, browser, docTitle, recordContext, pageTitle,
                  injected, waits, scrollVars, encVars >>
  /\ UNCHANGED << histVars, timeVars >>

SetupGoto ==
  /\ pc = "setupGoto"
  /\ setupContext' = [setupContext EXCEPT !.gotos = @ + 1]
  /\ pc' = "setupWait"
  /\ UNCHANGED << args, options, exitCode, reported, err, fsVars, tempDir,
                  displayUrl, browser, docTitle, recordContext, pageTitle,
                  injected, waits, scrollVars, encVars >>
  /\ UNCHANGED << histVars, timeVars >>

SetupWait ==
  /\ pc = "setupWait"
  /\ waits' = IF GtZero(options.wait)
              THEN Append(waits, [page |-> "setup", ms |-> options.wait])
              ELSE waits
  /\ pc' = "setupTitle"
  /\ UNCHANGED << args, options, exitCode, reported, err, fsVars, tempDir,
                  displayUrl, browser, docTitle, setupContext, recordContext,
                  pageTitle, injected, scrollVars, encVars >>
  /\ UNCHANGED << histVars, timeVars >>

SetupTitle ==
  /\ pc = "setupTitle"
  /\ pageTitle' = IF Falsy(options.title) THEN Str(docTitle) ELSE options.title
  /\ pc' = "setupInject"
  /\ UNCHANGED << args, options, exitCode, reported, err, fsVars, tempDir,
                  displayUrl, browser, docTitle, setupContext, recordContext,
                  injected, waits, scrollVars, encVars >>
  /\ UNCHANGED << histVars, timeVars >>

SetupInject ==
  /\ pc = "setupInject"
  /\ injected' = Append(injected,
                        injectBrowserChrome("setup", pageTitle, displayUrl))
  /\ pc' = "setupRender"
  /\ UNCHANGED << args, options, exitCode, reported, err, fsVars, tempDir,
                  displayUrl, browser, docTitle, setupContext, recordContext,
                  pageTitle, waits, scrollVars, encVars >>
  /\ UNCHANGED << histVars, timeVars >>

SetupRenderSkipped ==
  /\ pc = "setupRender"
  /\ pc' = "setupClose"
  /\ UNCHANGED << args, options, exitCode, reported, err, fsVars, tempDir,
                  displayUrl, browser, docTitle, setupContext, recordContext,
                  pageTitle, injected, scrollVars, encVars, waits >>
  /\ UNCHANGED << histVars, timeVars >>

SetupRender ==
  /\ pc = "setupRender"
  /\ waits' = Append(waits, [page |-> "setup", ms |-> Int2Num(300)])
  /\ pc' = "setupClose"
  /\ UNCHANGED << args, options, exitCode, reported, err, fsVars, tempDir,
                  displayUrl, browser, docTitle, setupContext, recordContext,
                  pageTitle, injected, scrollVars, encVars >>
  /\ UNCHANGED << histVars, timeVars >>

SetupCloseSkipped ==
  /\ pc = "setupClose"
  /\ pc' = "newRecordContext"
  /\ UNCHANGED << args, options, exitCode, reported, err, fsVars, tempDir,
                  displayUrl, browser, docTitle, pageVars, scrollVars, encVars >>
  /\ UNCHANGED << histVars, timeVars >>

SetupClose ==
  /\ pc = "setupClose"
  /\ setupContext' = [setupContext EXCEPT !.state = "closed"]
  /\ pc' = "newRecordContext"
  /\ UNCHANGED << args, options, exitCode, reported, err, fsVars, tempDir,
                  displayUrl, browser, docTitle, recordContext, pageTitle,
                  injected, waits, scrollVars, encVars >>
  /\ UNCHANGED << histVars, timeVars >>

----------------------------------------------------------------------------
(* The recording pass *)

NewRecordContextRelaunch ==
  /\ pc = "newRecordContext"
  /\ launches' = launches + 1
  /\ recordContext' = [state |-> "open", videoDir |-> tempDir, gotos |-> 0]
  /\ pc' = "recordGoto"
  /\ UNCHANGED << args, options, exitCode, reported, err, fsVars, tempDir,
                  displayUrl, browser, docTitle, setupContext, pageTitle,
                  injected, waits, scrollVars, encVars >>
  /\ UNCHANGED << gifInvoked, pair, companion, timeVars >>

NewRecordContext ==
  /\ pc = "newRecordContext"
  /\ recordContext' = [state |-> "open", videoDir |-> tempDir, gotos |-> 0]
  /\ pc' = "recordGoto"
  /\ UNCHANGED << args, options, exitCode, reported, err, fsVars, tempDir,
                  displayUrl, browser, docTitle, setupContext, pageTitle,
                  injected, waits, scrollVars, encVars >>
  /\ UNCHANGED << histVars, timeVars >>

RecordGoto ==
  /\ pc = "recordGoto"
  /\ recordContext' = [recordContext EXCEPT !.gotos = @ + 1]
  /\ pageY' \in 0..MaxInitialScrollY
  /\ docTitle' \in PageTitles
  /\ \E ms \in NavigationMillis : recClock' = recClock + ms * TicksPerMs
  /\ pc' = "recordInject"
  /\ UNCHANGED << args, options, exitCode, reported, err, fsVars, tempDir,
                  displayUrl, browser, setupContext, pageTitle,
                  injected, waits, pixelsPerFrame, totalFrames, currentScrollY,
                  frame, firstScrollY, scrollCalls, encVars >>
  /\ UNCHANGED << histVars, captureLength, videoLength >>

RecordInjectRemeasured ==
  /\ pc = "recordInject"
  /\ injected' = Append(injected,
                        injectBrowserChrome("record",
                          IF Falsy(options.title) THEN Str(docTitle) ELSE options.title,
                          displayUrl))
  /\ pc' = "recordSettle"
  /\ UNCHANGED << args, options, exitCode, reported, err, fsVars, tempDir,
                  displayUrl, browser, docTitle, setupContext, recordContext,
                  pageTitle, waits, scrollVars, encVars >>
  /\ UNCHANGED << histVars, timeVars >>

RecordInject ==
  /\ pc = "recordInject"
  /\ injected' = Append(injected,
                        injectBrowserChrome("record", pageTitle, displayUrl))
  /\ pc' = "recordSettle"
  /\ UNCHANGED << args, options, exitCode, reported, err, fsVars, tempDir,
                  displayUrl, browser, docTitle, setupContext, recordContext,
                  pageTitle, waits, scrollVars, encVars >>
  /\ UNCHANGED << histVars, timeVars >>

RecordSettleUsesWait ==
  /\ pc = "recordSettle"
  /\ waits' = Append(waits, [page |-> "record", ms |-> options.wait])
  /\ recClock' = recClock + 2000 * TicksPerMs
  /\ pc' = "scrollInit"
  /\ UNCHANGED << args, options, exitCode, reported, err, fsVars, tempDir,
                  displayUrl, browser, docTitle, setupContext, recordContext,
                  pageTitle, injected, scrollVars, encVars >>
  /\ UNCHANGED << histVars, captureLength, videoLength >>

RecordSettle ==
  /\ pc = "recordSettle"
  /\ waits' = Append(waits, [page |-> "record", ms |-> Int2Num(2000)])
  /\ recClock' = recClock + 2000 * TicksPerMs
  /\ pc' = "scrollInit"
  /\ UNCHANGED << args, options, exitCode, reported, err, fsVars, tempDir,
                  displayUrl, browser, docTitle, setupContext, recordContext,
                  pageTitle, injected, scrollVars, encVars >>
  /\ UNCHANGED << histVars, captureLength, videoLength >>

----------------------------------------------------------------------------
(* scrollForDuration *)

PixelsPerFrame(pixelsPerSecond) == Max1(CeilDiv(pixelsPerSecond, SCROLL_FPS))

TotalFramesTruncated(durationSeconds) ==
  IF durationSeconds.t # "number" THEN NaN
  ELSE Num(((durationSeconds.n * SCROLL_FPS) \div Scale) * Scale)

TotalFrames(durationSeconds) == RoundMul(durationSeconds, SCROLL_FPS)

\* window.scrollTo(0, y): the page clamps the offset to its scrollable
\* range; a NaN offset is treated as 0
ScrollTo(y) ==
  IF y.t # "number" THEN 0
  ELSE LET px == y.n \div Scale
       IN IF px < 0 THEN 0 ELSE IF px > PageScrollLimit THEN PageScrollLimit ELSE px

ScrollInit ==
  /\ pc = "scrollInit"
  /\ pixelsPerFrame' = PixelsPerFrame(options.speed)
  /\ totalFrames' = TotalFrames(options.duration)
  /\ currentScrollY' = Int2Num(pageY)
  /\ firstScrollY' = Int2Num(pageY)
  /\ frame' = 0
  /\ pc' = "scrollLoop"
  /\ UNCHANGED << args, options, exitCode, reported, err, fsVars, tempDir,
                  displayUrl, browser, docTitle, pageVars, pageY, scrollCalls,
                  encVars >>
  /\ UNCHANGED << histVars, timeVars >>

ScrollStepRelative ==
  /\ pc = "scrollLoop"
  /\ FrameBelow(frame, totalFrames)
  /\ LET newY == Plus(Int2Num(pageY), pixelsPerFrame)
     IN /\ pageY' = ScrollTo(newY)
        /\ currentScrollY' = newY
  /\ scrollCalls' = scrollCalls + 1
  /\ recClock' = recClock + MsPerFrame
  /\ frame' = frame + 1
  /\ UNCHANGED << args, pc, options, exitCode, reported, err, fsVars, tempDir,
                  displayUrl, browser, docTitle, pageVars, pixelsPerFrame,
                  totalFrames, firstScrollY, encVars >>
  /\ UNCHANGED << histVars, captureLength, videoLength >>

ScrollStep ==
  /\ pc = "scrollLoop"
  /\ FrameBelow(frame, totalFrames)
  /\ LET newY == Plus(currentScrollY, pixelsPerFrame)
     IN /\ pageY' = ScrollTo(newY)
        /\ currentScrollY' = newY
  /\ scrollCalls' = scrollCalls + 1
  /\ recClock' = recClock + MsPerFrame
  /\ frame' = frame + 1
  /\ UNCHANGED << args, pc, options, exitCode, reported, err, fsVars, tempDir,
                  displayUrl, browser, docTitle, pageVars, pixelsPerFrame,
                  totalFrames, firstScrollY, encVars >>
  /\ UNCHANGED << histVars, captureLength, videoLength >>

ScrollDoneSkipClose ==
  /\ pc = "scrollLoop"
  /\ ~FrameBelow(frame, totalFrames)
  /\ pc' = "findVideo"
  /\ UNCHANGED << args, options, exitCode, reported, err, fsVars, tempDir,
                  displayUrl, browser, docTitle, pageVars, scrollVars, encVars >>
  /\ UNCHANGED << histVars, timeVars >>

ScrollDone ==
  /\ pc = "scrollLoop"
  /\ ~FrameBelow(frame, totalFrames)
  /\ pc' = "recordClose"
  /\ UNCHANGED << args, options, exitCode, reported, err, fsVars, tempDir,
                  displayUrl, browser, docTitle, pageVars, scrollVars, encVars >>
  /\ UNCHANGED << histVars, timeVars >>

----------------------------------------------------------------------------
(* Closing the recording session flushes the capture into its directory *)

CaptureKind(name) == IF EndsWith(name, ".webm") THEN "raw" ELSE "other"

RecordClose ==
  /\ pc = "recordClose"
  /\ recordContext' = [recordContext EXCEPT !.state = "closed"]
  /\ \E listing \in CaptureListings :
       LET new == { PathJoin(recordContext.videoDir, listing[i]) : i \in DOMAIN listing }
       IN /\ tempListing' = listing
          /\ files' = [q \in DOMAIN files \cup new |->
                         IF q \in new
                         THEN Content(CaptureKind(q), "", Null)
                         ELSE files[q]]
          /\ touched' = touched \cup { [path |-> q, by |-> "playwright"] : q \in new }
  /\ captureLength' = recClock
  /\ pc' = "findVideo"
  /\ UNCHANGED << args, options, exitCode, reported, err, dirs, tempDir,
                  displayUrl, browser, docTitle, setupContext, pageTitle,
                  injected, waits, scrollVars, recordedVideo, mp4Success,
                  encoderCalls >>
  /\ UNCHANGED << histVars, recClock, videoLength >>

\* readdirSync(tempDir).filter((f) => f.endsWith('.webm'))
VideoFiles(listing) == SelectSeq(listing, LAMBDA f : EndsWith(f, ".webm"))

FindVideoUnchecked ==
  /\ pc = "findVideo"
  /\ recordedVideo' =
       PathJoin(tempDir, IF VideoFiles(tempListing) = << >> THEN "undefined"
                         ELSE VideoFiles(tempListing)[1])
  /\ pc' = "convert"
  /\ UNCHANGED << args, options, exitCode, reported, err, fsVars, tempDir,
                  displayUrl, browser, docTitle, pageVars, scrollVars,
                  tempListing, mp4Success, encoderCalls >>
  /\ UNCHANGED << histVars, timeVars >>

FindVideo ==
  /\ pc = "findVideo"
  /\ \/ /\ Len(VideoFiles(tempListing)) = 0
        /\ err' = "No video file was recorded"
        /\ pc' = "finally"
        /\ UNCHANGED recordedVideo
     \/ /\ Len(VideoFiles(tempListing)) # 0
        /\ recordedVideo' = PathJoin(tempDir, VideoFiles(tempListing)[1])
        /\ pc' = "convert"
        /\ UNCHANGED err
  /\ UNCHANGED << args, options, exitCode, reported, fsVars, tempDir,
                  displayUrl, browser, docTitle, pageVars, scrollVars,
                  tempListing, mp4Success, encoderCalls >>
  /\ UNCHANGED << histVars, timeVars >>

----------------------------------------------------------------------------
(* convertToMp4 and the WebM fallback.  ffmpeg is run with execSync: the   *)
(* call returns when the encoder has exited.  A run that succeeds writes   *)
(* its output file; a run that fails may leave a partial output behind.    *)
(* ffmpeg refuses to write an output that is one of its inputs.            *)

TrimFlagUnguarded(trimStart) == trimStart

\* the -ss value handed to ffmpeg, Null when the flag is left out
TrimFlag(trimStart) == IF GtZero(trimStart) THEN trimStart ELSE Null

EncoderCall(tool, in, out, ss, ok) ==
  [tool |-> tool, in |-> in, out |-> out, ss |-> ss, ok |-> ok]

ConvertToMp4 ==
  /\ pc = "convert"
  /\ LET webmPath == recordedVideo
         mp4Path  == options.output.s
         ss       == TrimFlag(options.trim)
     IN \/ /\ Exists(files, webmPath)
           /\ Dirname(mp4Path) \in dirs
           /\ files' = WriteFile(files, mp4Path, Content("mp4", webmPath, ss))
           /\ touched' = touched \cup {[path |-> mp4Path, by |-> "mp4"]}
           /\ encoderCalls' = Append(encoderCalls,
                                EncoderCall("mp4", webmPath, mp4Path, ss, TRUE))
           /\ mp4Success' = "true"
           /\ videoLength' = LengthFrom(captureLength, ss)
           /\ pc' = "gifCheck"
           /\ UNCHANGED reported
        \/ /\ \E partial \in BOOLEAN :
                IF partial /\ Dirname(mp4Path) \in dirs
                THEN /\ files' = WriteFile(files, mp4Path, Content("partial", webmPath, ss))
                     /\ touched' = touched \cup {[path |-> mp4Path, by |-> "mp4"]}
                ELSE UNCHANGED << files, touched >>
           /\ encoderCalls' = Append(encoderCalls,
                                EncoderCall("mp4", webmPath, mp4Path, ss, FALSE))
           /\ reported' = reported \cup {"ffmpeg MP4 conversion failed"}
           /\ mp4Success' = "false"
           /\ pc' = "keepWebm"
           /\ UNCHANGED videoLength
  /\ UNCHANGED << args, options, exitCode, err, dirs, tempDir, displayUrl,
                  browser, docTitle, pageVars, scrollVars, tempListing,
                  recordedVideo >>
  /\ UNCHANGED << histVars, recClock, captureLength >>

\* options.output.replace('.mp4', '.webm')
WebmOutput(output) == ReplaceFirst(output, ".mp4", ".webm")

KeepWebmNoCopy ==
  /\ pc = "keepWebm"
  /\ reported' = reported \cup {"Failed to convert to MP4. Keeping WebM..."}
  /\ pc' = "gifCheck"
  /\ UNCHANGED << args, options, exitCode, err, fsVars, tempDir, displayUrl,
                  browser, docTitle, pageVars, scrollVars, encVars >>
  /\ UNCHANGED << histVars, timeVars >>

KeepWebm ==
  /\ pc = "keepWebm"
  /\ reported' = reported \cup {"Failed to convert to MP4. Keeping WebM..."}
  /\ LET webmOutput == WebmOutput(options.output.s)
     IN \/ /\ Exists(files, recordedVideo)
           /\ Dirname(webmOutput) \in dirs
           /\ files' = WriteFile(files, webmOutput, Content("raw", recordedVideo, Null))
           /\ touched' = touched \cup {[path |-> webmOutput, by |-> "copy"]}
           /\ pc' = "gifCheck"
           /\ UNCHANGED err
        \/ /\ ~(Exists(files, recordedVideo) /\ Dirname(webmOutput) \in dirs)
           /\ err' = "copyFileSync"
           /\ pc' = "finally"
           /\ UNCHANGED << files, touched >>
  /\ UNCHANGED << args, options, exitCode, dirs, tempDir, displayUrl, browser,
                  docTitle, pageVars, scrollVars, encVars >>
  /\ UNCHANGED << histVars, timeVars >>

----------------------------------------------------------------------------
(* generateGif *)

ShouldGenerateGifIgnoringFlag(o, ok) == ok = "true"

\* !options.noGif && mp4Success
ShouldGenerateGif(o, ok) == ~o.noGif /\ ok = "true"

\* options.output.replace('.mp4', '.gif')
GifPath(output) == ReplaceFirst(output, ".mp4", ".gif")

\* path.join(os.tmpdir(), 'palette.png')
PalettePath == PathJoin(OsTmpDir, "palette.png")

GifCheck ==
  /\ pc = "gifCheck"
  /\ IF ShouldGenerateGif(options, mp4Success)
     THEN /\ gifInvoked' = Append(gifInvoked,
                              [mp4Path |-> options.output.s,
                               gifPath |-> GifPath(options.output.s)])
          /\ pc' = "gifPalette"
     ELSE /\ pc' = "finally"
          /\ UNCHANGED gifInvoked
  /\ UNCHANGED << args, options, exitCode, reported, err, fsVars, tempDir,
                  displayUrl, browser, docTitle, pageVars, scrollVars, encVars >>
  /\ UNCHANGED << launches, pair, companion, timeVars >>

GifPalette ==
  /\ pc = "gifPalette"
  /\ LET mp4Path == options.output.s
     IN \/ /\ Exists(files, mp4Path)
           /\ files' = WriteFile(files, PalettePath, Content("palette", mp4Path, Null))
           /\ touched' = touched \cup {[path |-> PalettePath, by |-> "palette"]}
           /\ encoderCalls' = Append(encoderCalls,
                                EncoderCall("palette", mp4Path, PalettePath, Null, TRUE))
           /\ pc' = "gifRender"
           /\ UNCHANGED reported
        \/ /\ \E partial \in BOOLEAN :
                IF partial
                THEN /\ files' = WriteFile(files, PalettePath, Content("partial", mp4Path, Null))
                     /\ touched' = touched \cup {[path |-> PalettePath, by |-> "palette"]}
                ELSE UNCHANGED << files, touched >>
           /\ encoderCalls' = Append(encoderCalls,
                                EncoderCall("palette", mp4Path, PalettePath, Null, FALSE))
           /\ reported' = reported \cup {"ffmpeg GIF generation failed"}
           /\ pc' = "finally"
  /\ UNCHANGED << args, options, exitCode, err, dirs, tempDir, displayUrl,
                  browser, docTitle, pageVars, scrollVars, tempListing,
                  recordedVideo, mp4Success >>
  /\ UNCHANGED << histVars, timeVars >>

GifRenderUncaught ==
  /\ pc = "gifRender"
  /\ encoderCalls' = Append(encoderCalls,
       EncoderCall("gif", options.output.s, GifPath(options.output.s), Null, FALSE))
  /\ err' = "ffmpeg GIF generation failed"
  /\ pc' = "finally"
  /\ UNCHANGED << args, options, exitCode, reported, fsVars, tempDir, displayUrl,
                  browser, docTitle, pageVars, scrollVars, tempListing,
                  recordedVideo, mp4Success >>
  /\ UNCHANGED << histVars, timeVars >>

GifRender ==
  /\ pc = "gifRender"
  /\ LET mp4Path == options.output.s
         gifPath == GifPath(options.output.s)
     IN \/ /\ gifPath # mp4Path
           /\ Exists(files, mp4Path)
           /\ Exists(files, PalettePath)
           /\ Dirname(gifPath) \in dirs
           /\ files' = RemoveFile(WriteFile(files, gifPath, Content("gif", mp4Path, Null)),
                                  PalettePath)
           /\ touched' = touched \cup {[path |-> gifPath, by |-> "gif"]}
           /\ encoderCalls' = Append(encoderCalls,
                                EncoderCall("gif", mp4Path, gifPath, Null, TRUE))
           /\ UNCHANGED reported
        \/ /\ \E partial \in BOOLEAN :
                IF partial /\ gifPath # mp4Path /\ Dirname(gifPath) \in dirs
                THEN /\ files' = WriteFile(files, gifPath, Content("partial", mp4Path, Null))
                     /\ touched' = touched \cup {[path |-> gifPath, by |-> "gif"]}
                ELSE UNCHANGED << files, touched >>
           /\ encoderCalls' = Append(encoderCalls,
                                EncoderCall("gif", mp4Path, gifPath, Null, FALSE))
           /\ reported' = reported \cup {"ffmpeg GIF generation failed"}
  /\ pc' = "finally"
  /\ UNCHANGED << args, options, exitCode, err, dirs, tempDir, displayUrl,
                  browser, docTitle, pageVars, scrollVars, tempListing,
                  recordedVideo, mp4Success >>
  /\ UNCHANGED << histVars, timeVars >>

----------------------------------------------------------------------------
(* Exceptions of the page operations inside the try block, the finally     *)
(* block, and the end of the process                                       *)

\* awaited page operations that may reject: navigation, overlay injection
\* (addStyleTag / evaluate) and the evaluate calls of the scroll loop
ThrowPoints == {"setupGoto", "setupInject", "recordGoto", "recordInject",
                "scrollInit", "scrollLoop"}

Throw ==
  /\ pc \in ThrowPoints
  /\ pc = "scrollLoop" => FrameBelow(frame, totalFrames)
  /\ err' = pc
  /\ pc' = "finally"
  /\ UNCHANGED << args, options, exitCode, reported, fsVars, tempDir,
                  displayUrl, browser, docTitle, pageVars, scrollVars, encVars >>
  /\ UNCHANGED << histVars, timeVars >>

Disposed(ctx) == IF ctx.state = "open" THEN [ctx EXCEPT !.state = "disposed"] ELSE ctx

FinallySwallow ==
  /\ pc = "finally"
  /\ browser' = "closed"
  /\ setupContext' = Disposed(setupContext)
  /\ recordContext' = Disposed(recordContext)
  /\ dirs' = dirs \ {tempDir}
  /\ files' = RemoveTree(files, tempDir)
  /\ pc' = "resolved"
  /\ UNCHANGED << args, options, exitCode, reported, err, touched, tempDir,
                  displayUrl, docTitle, pageTitle, injected, waits, scrollVars,
                  encVars >>
  /\ UNCHANGED << histVars, timeVars >>

FinallyKeepsBrowser ==
  /\ pc = "finally"
  /\ dirs' = dirs \ {tempDir}
  /\ files' = RemoveTree(files, tempDir)
  /\ pc' = IF err = "" THEN "resolved" ELSE "rejected"
  /\ UNCHANGED << args, options, exitCode, reported, err, touched, tempDir,
                  displayUrl, browser, docTitle, pageVars, scrollVars, encVars >>
  /\ UNCHANGED << histVars, timeVars >>

\* browser.close() ends every session still open; rmSync removes the
\* temporary directory with what it holds; then the exception, if any,
\* continues to propagate
Finally ==
  /\ pc = "finally"
  /\ browser' = "closed"
  /\ setupContext' = Disposed(setupContext)
  /\ recordContext' = Disposed(recordContext)
  /\ dirs' = dirs \ {tempDir}
  /\ files' = RemoveTree(files, tempDir)
  /\ pc' = IF err = "" THEN "resolved" ELSE "rejected"
  /\ UNCHANGED << args, options, exitCode, reported, err, touched, tempDir,
                  displayUrl, docTitle, pageTitle, injected, waits, scrollVars,
                  encVars >>
  /\ UNCHANGED << histVars, timeVars >>

\* recordVideo(options).catch(...): report and process.exit(1)
CatchExit ==
  /\ pc = "rejected"
  /\ reported' = reported \cup {"Error: " \o err}
  /\ exitCode' = 1
  /\ pc' = "exited"
  /\ UNCHANGED << args, options, err, fsVars, tempDir, displayUrl, browser,
                  docTitle, pageVars, scrollVars, encVars >>
  /\ UNCHANGED << histVars, timeVars >>

\* the promise resolved and nothing is left to run: the process ends with
\* status 0
ExitNormally ==
  /\ pc = "resolved"
  /\ exitCode' = 0
  /\ pc' = "exited"
  /\ UNCHANGED << args, options, reported, err, fsVars, tempDir, displayUrl,
                  browser, docTitle, pageVars, scrollVars, encVars >>
  /\ UNCHANGED << histVars, timeVars >>

Next ==
  \/ Main \/ Validate \/ Prepare \/ Launch
  \/ NewSetupContext \/ SetupGoto \/ SetupWait \/ SetupTitle \/ SetupInject
  \/ SetupRender \/ SetupClose
  \/ NewRecordContext \/ RecordGoto \/ RecordInject \/ RecordSettle
  \/ ScrollInit \/ ScrollStep \/ ScrollDone
  \/ RecordClose \/ FindVideo \/ ConvertToMp4 \/ KeepWebm
  \/ GifCheck \/ GifPalette \/ GifRender
  \/ Throw \/ Finally \/ CatchExit \/ ExitNormally

Spec == Init /\ [][Next]_vars

----------------------------------------------------------------------------
(* parseArgs for arbitrary argument lists: the process from its start to   *)
(* the call of recordVideo, for every list of at most MaxArgs tokens.      *)

MaxArgs == 4

ArgTokens == {"--url", "--output", "--duration", "--speed", "--wait", "--trim",
              "--title", "--no-gif", "--width", "--height", "x", "7.5"}

InitArgs ==
  /\ args \in UNION { [1..n -> ArgTokens] : n \in 0..MaxArgs }
  /\ pc = "main"
  /\ options = DefaultOptions
  /\ exitCode = -1
  /\ reported = {}
  /\ err = ""
  /\ dirs = {".", OsTmpDir}
  /\ files = << >>
  /\ touched = {}
  /\ tempDir = ""
  /\ displayUrl = ""
  /\ browser = "none"
  /\ setupContext = NoContext
  /\ recordContext = NoContext
  /\ docTitle = ""
  /\ pageTitle = Null
  /\ injected = << >>
  /\ waits = << >>
  /\ pageY = 0
  /\ pixelsPerFrame = Null
  /\ totalFrames = Null
  /\ currentScrollY = Null
  /\ frame = 0
  /\ firstScrollY = Null
  /\ scrollCalls = 0
  /\ tempListing = << >>
  /\ recordedVideo = ""
  /\ mp4Success = "unset"
  /\ encoderCalls = << >>
  /\ launches = 0
  /\ gifInvoked = << >>
  /\ recClock = 0
  /\ captureLength = -1
  /\ videoLength = -1
  /\ pair = << >>
  /\ companion = << >>

NextArgs == Main

SpecArgs == InitArgs /\ [][NextArgs]_vars

----------------------------------------------------------------------------
(* The overlay for arbitrary texts: the setup pass from the point where    *)
(* the page has loaded, for pages whose title and whose address are built  *)
(* from the characters escapeHtml replaces and pieces of its entities.     *)

MaxEscapeTokens == 3

EscapeTokens == {"&", "<", ">", "\"", "'", "amp;", "#039;", "lt;", "a"}

RECURSIVE Concat(_)
Concat(q) == IF q = << >> THEN "" ELSE q[1] \o Concat(Tail(q))

\* document titles of at most MaxEscapeTokens tokens
EscapeTexts ==
  { Concat(q) : q \in UNION { [1..n -> EscapeTokens] : n \in 0..MaxEscapeTokens } }

\* addresses whose path holds characters the URL parser leaves alone
EscapeUrls == { "https://example.com/map", "https://example.com/a&b",
                "https://example.com/it's&amp;" }

InitEscape ==
  /\ \E u \in EscapeUrls :
       /\ args = <<"--url", u, "--output", "out.mp4">>
       /\ displayUrl = DisplayUrl(u)
  /\ options = parseArgs(args)
  /\ pc = "setupTitle"
  /\ docTitle \in EscapeTexts
  /\ \E suffix \in TempSuffixes :
       /\ tempDir = PathJoin(OsTmpDir, "page-scroll-" \o suffix)
       /\ dirs = {".", OsTmpDir, tempDir}
  /\ browser = "open"
  /\ launches = 1
  /\ setupContext = [state |-> "open", videoDir |-> "", gotos |-> 1]
  /\ waits = << [page |-> "setup", ms |-> options.wait] >>
  /\ exitCode = -1
  /\ reported = {}
  /\ err = ""
  /\ files = << >>
  /\ touched = {}
  /\ recordContext = NoContext
  /\ pageTitle = Null
  /\ injected = << >>
  /\ pageY = 0
  /\ pixelsPerFrame = Null
  /\ totalFrames = Null
  /\ currentScrollY = Null
  /\ frame = 0
  /\ firstScrollY = Null
  /\ scrollCalls = 0
  /\ tempListing = << >>
  /\ recordedVideo = ""
  /\ mp4Success = "unset"
  /\ encoderCalls = << >>
  /\ gifInvoked = << >>
  /\ recClock = 0
  /\ captureLength = -1
  /\ videoLength = -1
  /\ pair = << >>
  /\ companion = << >>

NextEscape == SetupTitle \/ SetupInject

SpecEscape == InitEscape /\ [][NextEscape]_vars

----------------------------------------------------------------------------
(* Two invocations of the recorder running at the same time on one machine. *)
(* Each is a process of its own with its own options, temporary directory   *)
(* and browser; what they share is the file system.  pair[r] is the state   *)
(* of run r: its position, its output path and GIF flag, its temporary      *)
(* directory, the capture it picked, the result of its transcode, and every *)
(* file path it has read, written or deleted.  The steps are those of a     *)
(* single run that reach the file system; the two passes of the browser are *)
(* one step, which ends with the flush of the capture.                      *)

PairRuns == {1, 2}

\* the output paths of the two runs, different from each other
PairOutputs == { <<"out.mp4", "site/out.mp4">>, <<"out.mp4", "out.mov">> }

\* names mkdtempSync may draw; it never returns a directory that exists
PairSuffixes == {"Xa91Qz", "b7Lk2M"}

pairFrame == << args, pc, options, exitCode, reported, err, touched, tempDir,
                displayUrl, browser, docTitle, pageVars, scrollVars, encVars,
                launches, gifInvoked, timeVars, companion >>

InitPair ==
  /\ \E outs \in PairOutputs, nogif \in [PairRuns -> BOOLEAN] :
       pair = [r \in PairRuns |->
                 [pc |-> "prepare", output |-> outs[r], noGif |-> nogif[r],
                  tempDir |-> "", recordedVideo |-> "", mp4Success |-> "unset",
                  accessed |-> {}]]
  /\ dirs = {".", OsTmpDir}
  /\ files = << >>
  /\ args = << >>
  /\ pc = "pair"
  /\ options = DefaultOptions
  /\ exitCode = -1
  /\ reported = {}
  /\ err = ""
  /\ touched = {}
  /\ tempDir = ""
  /\ displayUrl = ""
  /\ browser = "none"
  /\ setupContext = NoContext
  /\ recordContext = NoContext
  /\ docTitle = ""
  /\ pageTitle = Null
  /\ injected = << >>
  /\ waits = << >>
  /\ pageY = 0
  /\ pixelsPerFrame = Null
  /\ totalFrames = Null
  /\ currentScrollY = Null
  /\ frame = 0
  /\ firstScrollY = Null
  /\ scrollCalls = 0
  /\ tempListing = << >>
  /\ recordedVideo = ""
  /\ mp4Success = "unset"
  /\ encoderCalls = << >>
  /\ launches = 0
  /\ gifInvoked = << >>
  /\ recClock = 0
  /\ captureLength = -1
  /\ videoLength = -1
  /\ companion = << >>

\* run r moves to position q having accessed the paths ps
PairMove(r, q, ps) ==
  [pair[r] EXCEPT !.pc = q, !.accessed = @ \cup ps]

\* mkdirSync of the output directory, mkdtempSync
PairPrepare(r) ==
  /\ pair[r].pc = "prepare"
  /\ \E suffix \in PairSuffixes :
       LET tmp == PathJoin(OsTmpDir, "page-scroll-" \o suffix)
       IN /\ tmp \notin dirs
          /\ dirs' = dirs \cup {Dirname(pair[r].output), tmp}
          /\ pair' = [pair EXCEPT ![r] =
                        [PairMove(r, "record", {}) EXCEPT !.tempDir = tmp]]
  /\ UNCHANGED << files, pairFrame >>

\* the browser, the two passes, recordContext.close and the search for the
\* capture; an exception on the way leads to the finally block
PairRecord(r) ==
  /\ pair[r].pc = "record"
  /\ \/ /\ pair' = [pair EXCEPT ![r] = PairMove(r, "finally", {})]
        /\ UNCHANGED files
     \/ \E listing \in CaptureListings :
          LET new == { PathJoin(pair[r].tempDir, listing[i]) : i \in DOMAIN listing }
          IN /\ files' = [q \in DOMAIN files \cup new |->
                            IF q \in new THEN Content(CaptureKind(q), "", Null)
                            ELSE files[q]]
             /\ pair' = [pair EXCEPT ![r] =
                  IF Len(VideoFiles(listing)) = 0
                  THEN PairMove(r, "finally", new)
                  ELSE [PairMove(r, "convert", new) EXCEPT
                          !.recordedVideo =
                             PathJoin(pair[r].tempDir, VideoFiles(listing)[1])]]
  /\ UNCHANGED << dirs, pairFrame >>

\* convertToMp4 and the choice of what follows it
PairConvert(r) ==
  /\ pair[r].pc = "convert"
  /\ LET webmPath == pair[r].recordedVideo
         mp4Path  == pair[r].output
     IN \/ /\ Exists(files, webmPath)
           /\ files' = WriteFile(files, mp4Path, Content("mp4", webmPath, Null))
           /\ pair' = [pair EXCEPT ![r] =
                [PairMove(r, IF pair[r].noGif THEN "finally" ELSE "gifPalette",
                          {webmPath, mp4Path})
                   EXCEPT !.mp4Success = "true"]]
        \/ /\ UNCHANGED files
           /\ pair' = [pair EXCEPT ![r] =
                [PairMove(r, "keepWebm", {webmPath}) EXCEPT !.mp4Success = "false"]]
  /\ UNCHANGED << dirs, pairFrame >>

\* the WebM fallback
PairKeepWebm(r) ==
  /\ pair[r].pc = "keepWebm"
  /\ LET webmOutput == WebmOutput(pair[r].output)
     IN IF Exists(files, pair[r].recordedVideo) /\ Dirname(webmOutput) \in dirs
        THEN /\ files' = WriteFile(files, webmOutput,
                                   Content("raw", pair[r].recordedVideo, Null))
             /\ pair' = [pair EXCEPT ![r] =
                  PairMove(r, "finally", {pair[r].recordedVideo, webmOutput})]
        ELSE /\ UNCHANGED files
             /\ pair' = [pair EXCEPT ![r] =
                  PairMove(r, "finally", {pair[r].recordedVideo})]
  /\ UNCHANGED << dirs, pairFrame >>

\* generateGif, first ffmpeg run: the palette
PairGifPalette(r) ==
  /\ pair[r].pc = "gifPalette"
  /\ LET mp4Path == pair[r].output
     IN \/ /\ Exists(files, mp4Path)
           /\ files' = WriteFile(files, PalettePath, Content("palette", mp4Path, Null))
           /\ pair' = [pair EXCEPT ![r] =
                PairMove(r, "gifRender", {mp4Path, PalettePath})]
        \/ /\ UNCHANGED files
           /\ pair' = [pair EXCEPT ![r] = PairMove(r, "finally", {mp4Path})]
  /\ UNCHANGED << dirs, pairFrame >>

\* generateGif, second ffmpeg run and unlinkSync of the palette; the run
\* fails when the palette is no longer there, and unlinkSync throws when
\* the palette has been removed meanwhile: both end in the catch block
PairGifRender(r) ==
  /\ pair[r].pc = "gifRender"
  /\ LET mp4Path == pair[r].output
         gifPath == GifPath(pair[r].output)
     IN \/ /\ gifPath # mp4Path
           /\ Exists(files, mp4Path)
           /\ Exists(files, PalettePath)
           /\ Dirname(gifPath) \in dirs
           /\ files' = RemoveFile(WriteFile(files, gifPath,
                                            Content("gif", mp4Path, Null)),
                                  PalettePath)
           /\ pair' = [pair EXCEPT ![r] =
                PairMove(r, "finally", {mp4Path, PalettePath, gifPath})]
        \/ /\ UNCHANGED files
           /\ pair' = [pair EXCEPT ![r] =
                PairMove(r, "finally", {mp4Path, PalettePath})]
  /\ UNCHANGED << dirs, pairFrame >>

\* the finally block: rmSync of the run's temporary directory
PairFinally(r) ==
  /\ pair[r].pc = "finally"
  /\ dirs' = dirs \ {pair[r].tempDir}
  /\ files' = RemoveTree(files, pair[r].tempDir)
  /\ pair' = [pair EXCEPT ![r] = PairMove(r, "exited", {})]
  /\ UNCHANGED pairFrame

NextPair ==
  \E r \in PairRuns :
    \/ PairPrepare(r) \/ PairRecord(r) \/ PairConvert(r) \/ PairKeepWebm(r)
    \/ PairGifPalette(r) \/ PairGifRender(r) \/ PairFinally(r)

SpecPair == InitPair /\ [][NextPair]_vars

----------------------------------------------------------------------------
(* The scroll loop on a page that moves by itself.  The run starts where    *)
(* recordVideo calls scrollForDuration: both passes have loaded the page,   *)
(* the overlay is injected and the 2000 ms wait is over.  Between two steps *)
(* of the loop the page may put its scroll position anywhere in its range   *)
(* (its own scripts, the user agent's clamping at the bottom).              *)

ScrollArgs ==
  { <<"--url", "https://example.com/map", "--output", "out.mp4">> \o d \o s :
      d \in { <<"--duration", "0.05">>, <<"--duration", "0.025">> },
      s \in { <<>>, <<"--speed", "61">>, <<"--speed", "121">>, <<"--speed", "fast">> } }

InitScroll ==
  /\ args \in ScrollArgs
  /\ options = parseArgs(args)
  /\ displayUrl = DisplayUrl(options.url.s)
  /\ pc = "scrollInit"
  /\ docTitle = "First map"
  /\ pageTitle = Str(docTitle)
  /\ \E suffix \in TempSuffixes :
       /\ tempDir = PathJoin(OsTmpDir, "page-scroll-" \o suffix)
       /\ dirs = {".", OsTmpDir, tempDir}
  /\ browser = "open"
  /\ launches = 1
  /\ setupContext = [state |-> "closed", videoDir |-> "", gotos |-> 1]
  /\ recordContext = [state |-> "open", videoDir |-> tempDir, gotos |-> 1]
  /\ injected = << injectBrowserChrome("setup", pageTitle, displayUrl),
                   injectBrowserChrome("record", pageTitle, displayUrl) >>
  /\ waits = << [page |-> "setup", ms |-> options.wait],
               [page |-> "setup", ms |-> Int2Num(300)],
               [page |-> "record", ms |-> Int2Num(2000)] >>
  /\ pageY \in 0..MaxInitialScrollY
  /\ \E ms \in NavigationMillis : recClock = (ms + 2000) * TicksPerMs
  /\ exitCode = -1
  /\ reported = {}
  /\ err = ""
  /\ files = << >>
  /\ touched = {}
  /\ pixelsPerFrame = Null
  /\ totalFrames = Null
  /\ currentScrollY = Null
  /\ frame = 0
  /\ firstScrollY = Null
  /\ scrollCalls = 0
  /\ tempListing = << >>
  /\ recordedVideo = ""
  /\ mp4Success = "unset"
  /\ encoderCalls = << >>
  /\ gifInvoked = << >>
  /\ captureLength = -1
  /\ videoLength = -1
  /\ pair = << >>
  /\ companion = << >>

\* the page changes its own scroll position while the loop sleeps
PageDrift ==
  /\ pc = "scrollLoop"
  /\ pageY' \in (0..PageScrollLimit) \ {pageY}
  /\ UNCHANGED << args, pc, options, exitCode, reported, err, fsVars, tempDir,
                  displayUrl, browser, docTitle, pageVars, pixelsPerFrame,
                  totalFrames, currentScrollY, frame, firstScrollY, scrollCalls,
                  encVars >>
  /\ UNCHANGED << histVars, timeVars >>

NextScroll == ScrollInit \/ ScrollStep \/ PageDrift \/ ScrollDone

SpecScroll == InitScroll /\ [][NextScroll]_vars

----------------------------------------------------------------------------
(* The companion scripts of the browser-screenshots skill: the screenshot   *)
(* tool (capture.js, captureScreenshot) and the fixed-duration recorder     *)
(* (record-video.js, recordVideo).  Both validate their options, resolve a  *)
(* named session to a storage-state file, launch a browser and create one   *)
(* session in it.  companion holds the run:                                 *)
(*   prog          "capture" or "record-video"                              *)
(*   pc            position of the run                                      *)
(*   options       result of the script's parseArgs (the options the run's  *)
(*                 control flow reads)                                      *)
(*   sessionFiles  the session files that exist, ffmpeg: is it installed    *)
(*   storageState  undefined or the session file handed to newContext       *)
(*   tempDir, tempDirs   the mkdtempSync directory, the ones that exist     *)
(*   browser, launches, contexts (the storageState of each session created) *)
(*   outputs       output files written; exitCode, err, reported            *)

recorderVars == << args, pc, options, exitCode, reported, err, dirs, files,
                   touched, tempDir, displayUrl, browser, setupContext,
                   recordContext, docTitle, pageTitle, injected, waits, pageY,
                   pixelsPerFrame, totalFrames, currentScrollY, frame,
                   firstScrollY, scrollCalls, tempListing, recordedVideo,
                   mp4Success, encoderCalls, launches, gifInvoked, recClock,
                   captureLength, videoLength, pair >>

\* the page-scroll recorder is not running
RecorderIdle ==
  /\ args = << >> /\ pc = "idle" /\ options = DefaultOptions
  /\ exitCode = -1 /\ reported = {} /\ err = ""
  /\ dirs = {".", OsTmpDir} /\ files = << >> /\ touched = {}
  /\ tempDir = "" /\ displayUrl = "" /\ browser = "none"
  /\ setupContext = NoContext /\ recordContext = NoContext
  /\ docTitle = "" /\ pageTitle = Null /\ injected = << >> /\ waits = << >>
  /\ pageY = 0 /\ pixelsPerFrame = Null /\ totalFrames = Null
  /\ currentScrollY = Null /\ frame = 0 /\ firstScrollY = Null
  /\ scrollCalls = 0 /\ tempListing = << >> /\ recordedVideo = ""
  /\ mp4Success = "unset" /\ encoderCalls = << >> /\ launches = 0
  /\ gifInvoked = << >> /\ recClock = 0 /\ captureLength = -1
  /\ videoLength = -1 /\ pair = << >>

\* path.join(os.homedir(), '.playwright-sessions', `${session}.json`)
SessionPath(session) ==
  PathJoin(PathJoin("/home/user", ".playwright-sessions"), session \o ".json")

RECURSIVE toLowerCase(_)
toLowerCase(s) ==
  IF s = "" THEN ""
  ELSE LET k == IndexOf("ABCDEFGHIJKLMNOPQRSTUVWXYZ", CharAt(s, 1))
       IN (IF k = 0 THEN CharAt(s, 1)
           ELSE CharAt("abcdefghijklmnopqrstuvwxyz", k))
          \o toLowerCase(SubSeq(s, 2, Len(s)))

\* path.extname: from the last '.' of the last path segment, '' when there
\* is none or when it is the segment's first character
extname(p) ==
  LET slash == LastIndexOf(p, "/")
      base  == IF slash = 0 THEN p ELSE SubSeq(p, slash + 1, Len(p))
      dot   == LastIndexOf(base, ".")
  IN IF dot <= 1 THEN "" ELSE SubSeq(base, dot, Len(base))

\* the two scripts' parseArgs; record-video has no --element and no
\* --waitForSelector case
RECURSIVE toolParseArgs(_, _, _, _)
toolParseArgs(prog, a, i, o) ==
  IF i > Len(a) THEN o
  ELSE LET v == ArgAfter(a, i) IN
    CASE a[i] = "--url"     -> toolParseArgs(prog, a, i + 2, [o EXCEPT !.url = v])
      [] a[i] = "--output"  -> toolParseArgs(prog, a, i + 2, [o EXCEPT !.output = v])
      [] a[i] = "--execute" -> toolParseArgs(prog, a, i + 2, [o EXCEPT !.execute = v])
      [] a[i] = "--session" -> toolParseArgs(prog, a, i + 2, [o EXCEPT !.session = v])
      [] a[i] = "--element" /\ prog = "capture" ->
           toolParseArgs(prog, a, i + 2, [o EXCEPT !.element = v])
      [] a[i] = "--waitForSelector" /\ prog = "capture" ->
           toolParseArgs(prog, a, i + 2, [o EXCEPT !.waitForSelector = v])
      [] OTHER -> toolParseArgs(prog, a, i + 1, o)

\* a run of either script: its argument list, whether ffmpeg is installed
\* and which sessions have been saved
InitTools ==
  /\ RecorderIdle
  /\ \E prog \in {"capture", "record-video"}, ffmpeg \in BOOLEAN,
        stored \in SUBSET {"github"},
        u \in { <<>>, <<"--url", "http://localhost:5173">> },
        o \in { <<>>, <<"--output", "shot.png">>, <<"--output", "out.gif">>,
                <<"--output", "clips/OUT.MP4">>, <<"--output", "out.webm">>,
                <<"--output", "out.mov">>, <<"--output", ".gif">>,
                <<"--output", "clips.mp4/out">> },
        s \in { <<>>, <<"--session", "github">>, <<"--session", "gitlab">>,
                <<"--session">> },
        x \in { <<>>, <<"--execute", "start()">>, <<"--waitForSelector", "#app">> },
        e \in { <<>>, <<"--element", ".chart">> } :
       companion =
         [ prog |-> prog, pc |-> "validate",
           options |->
             toolParseArgs(prog, u \o o \o s \o x \o e, 1,
                           [ url |-> Null, output |-> Null, element |-> Null,
                             execute |-> Null, waitForSelector |-> Null,
                             session |-> Null ]),
           sessionFiles |-> { SessionPath(n) : n \in stored },
           ffmpeg |-> ffmpeg, storageState |-> Undefined,
           tempDir |-> "", tempDirs |-> {}, browser |-> "none", launches |-> 0,
           contexts |-> << >>, outputs |-> {}, exitCode |-> -1, err |-> "",
           reported |-> "" ]

\* a companion script is running and is at position q
ToolAt(q) == companion # << >> /\ companion.pc = q

\* process.exit(code) after console.error of the message named what
ToolExit(c, code, what) ==
  [c EXCEPT !.pc = "exited", !.exitCode = code, !.reported = what]

\* the exception of step what leaves the try block
ToolThrow(c, what) == [c EXCEPT !.pc = "cleanup", !.err = what]

\* the checks before the browser is launched
ToolValidateAnySession ==
  /\ ToolAt("validate")
  /\ LET c   == companion
         o   == c.options
         ext == toLowerCase(extname(ToStringArg(o.output)))
     IN companion' =
          IF Falsy(o.url) THEN ToolExit(c, 1, "url")
          ELSE IF Falsy(o.output) THEN ToolExit(c, 1, "output")
          ELSE IF c.prog = "record-video" /\ ext \notin {".gif", ".mp4", ".webm"}
               THEN ToolExit(c, 1, "extension")
          ELSE IF c.prog = "record-video" /\ ext = ".gif" /\ ~c.ffmpeg
               THEN ToolExit(c, 1, "ffmpeg")
          ELSE IF Falsy(o.session) THEN [c EXCEPT !.pc = "launch"]
          ELSE [c EXCEPT !.storageState = Str(SessionPath(o.session.s)),
                         !.pc = "launch"]
  /\ UNCHANGED recorderVars

ToolValidate ==
  /\ ToolAt("validate")
  /\ LET c   == companion
         o   == c.options
         ext == toLowerCase(extname(ToStringArg(o.output)))
     IN companion' =
          IF Falsy(o.url) THEN ToolExit(c, 1, "url")
          ELSE IF Falsy(o.output) THEN ToolExit(c, 1, "output")
          ELSE IF c.prog = "record-video" /\ ext \notin {".gif", ".mp4", ".webm"}
               THEN ToolExit(c, 1, "extension")
          ELSE IF c.prog = "record-video" /\ ext = ".gif" /\ ~c.ffmpeg
               THEN ToolExit(c, 1, "ffmpeg")
          ELSE IF Falsy(o.session) THEN [c EXCEPT !.pc = "launch"]
          ELSE IF SessionPath(o.session.s) \in c.sessionFiles
               THEN [c EXCEPT !.storageState = Str(SessionPath(o.session.s)),
                              !.pc = "launch"]
          ELSE ToolExit(c, 1, "session")
  /\ UNCHANGED recorderVars

\* record-video creates its temporary directory; then chromium.launch, which
\* is outside the try block in both scripts
ToolLaunch ==
  /\ ToolAt("launch")
  /\ \E suffix \in TempSuffixes :
       LET dir == PathJoin(OsTmpDir, "video-capture-" \o suffix)
           c   == IF companion.prog = "record-video"
                  THEN [companion EXCEPT !.tempDir = dir, !.tempDirs = {dir}]
                  ELSE companion
       IN \/ companion' = [c EXCEPT !.browser = "open", !.launches = @ + 1,
                                    !.pc = "newContext"]
          \/ companion' = [ToolExit(c, 1, "Error:") EXCEPT !.err = "launch"]
  /\ UNCHANGED recorderVars

ToolNewContext ==
  /\ ToolAt("newContext")
  /\ companion' = [companion EXCEPT
                     !.contexts = Append(@, companion.storageState),
                     !.pc = "goto"]
  /\ UNCHANGED recorderVars

ToolGoto ==
  /\ ToolAt("goto")
  /\ \/ companion' = [companion EXCEPT !.pc = "scripts"]
     \/ companion' = ToolThrow(companion, "goto")
  /\ UNCHANGED recorderVars

\* page.evaluate(options.execute) and, in the screenshot tool,
\* page.waitForSelector(options.waitForSelector)
ToolScripts ==
  /\ ToolAt("scripts")
  /\ LET c == companion
         o == c.options
     IN \/ companion' = [c EXCEPT !.pc = IF c.prog = "capture" THEN "screenshot"
                                        ELSE "record"]
        \/ /\ ~Falsy(o.execute)
           /\ companion' = ToolThrow(c, "execute")
        \/ /\ c.prog = "capture" /\ ~Falsy(o.waitForSelector)
           /\ companion' = ToolThrow(c, "waitForSelector")
  /\ UNCHANGED recorderVars

\* the screenshot tool takes the screenshot of the element or of the page
ToolScreenshot ==
  /\ ToolAt("screenshot")
  /\ LET c == companion
         o == c.options
         shot == [c EXCEPT !.outputs = @ \cup {o.output.s}, !.pc = "cleanup"]
     IN \/ companion' = shot
        \/ companion' = ToolThrow(c, "screenshot")
        \/ /\ ~Falsy(o.element)
           /\ companion' = ToolExit(c, 1, "Element not found")
  /\ UNCHANGED recorderVars

\* the recorder waits for the duration, closes page, session and browser,
\* converts the capture and removes its temporary directory
ToolRecord ==
  /\ ToolAt("record")
  /\ LET c == [companion EXCEPT !.browser = "closed"]
     IN \/ companion' = [c EXCEPT !.outputs = @ \cup {c.options.output.s},
                                  !.tempDirs = @ \ {c.tempDir},
                                  !.pc = "exited", !.exitCode = 0]
        \/ companion' = ToolThrow(c, "convert")
        \/ companion' = ToolThrow(companion, "wait")
  /\ UNCHANGED recorderVars

\* finally { browser.close() } of the screenshot tool; catch { browser.close();
\* rmSync(tempDir); throw } of the recorder; then the process ends
ToolCleanup ==
  /\ ToolAt("cleanup")
  /\ companion' = [companion EXCEPT
                     !.browser = "closed",
                     !.tempDirs = IF companion.prog = "record-video"
                                  THEN @ \ {companion.tempDir} ELSE @,
                     !.pc = "exited",
                     !.exitCode = IF companion.err = "" THEN 0 ELSE 1,
                     !.reported = IF companion.err = "" THEN "" ELSE "Error:"]
  /\ UNCHANGED recorderVars

NextTools ==
  \/ ToolValidate \/ ToolLaunch \/ ToolNewContext \/ ToolGoto \/ ToolScripts
  \/ ToolScreenshot \/ ToolRecord \/ ToolCleanup

SpecTools == InitTools /\ [][NextTools]_vars

----------------------------------------------------------------------------
(* The VSCode capture tool (vscode-screenshots/scripts/capture.cjs): main   *)
(* shows the instructions, waits for Enter, counts down and calls the       *)
(* platform's capture function; captureLinux tries the screenshot tools in  *)
(* turn.  companion holds the run:                                          *)
(*   args, options [output, delay], platform, installed (the commands       *)
(*   `which` finds), shown, entered, counter (the countdown's i) and sleeps *)
(*   (sleep(1000) calls made), captured, toolIndex and attempts (the tools  *)
(*   whose capture ran: [name, ok]), success, fileExists (a file is at the  *)
(*   output path), exitCode, reported                                       *)

\* sleep(1000) calls after which the model stops following a countdown
MaxSleeps == 6

\* parseArgs of the tool; parseFloat reads the word Infinity as a number
RECURSIVE vsParseArgs(_, _, _)
vsParseArgs(a, i, o) ==
  IF i > Len(a) THEN o
  ELSE LET v == ArgAfter(a, i) IN
    IF a[i] = "--output" THEN vsParseArgs(a, i + 2, [o EXCEPT !.output = v])
    ELSE IF a[i] = "--delay"
      THEN vsParseArgs(a, i + 2,
                       [o EXCEPT !.delay = IF v = Str("Infinity") THEN Infinity
                                           ELSE parseFloat(v)])
    ELSE IF a[i] \in {"--instructions", "--width", "--height"}
      THEN vsParseArgs(a, i + 2, o)
    ELSE vsParseArgs(a, i + 1, o)

\* the tools of captureLinux in the order of its array, each with the
\* commands its check looks for
LinuxTools ==
  << [name |-> "gnome-screenshot",     needs |-> {"gnome-screenshot"}],
     [name |-> "scrot",                needs |-> {"scrot"}],
     [name |-> "import (ImageMagick)", needs |-> {"import", "xdotool"}],
     [name |-> "maim",                 needs |-> {"maim", "xdotool"}] >>

InitVscode ==
  /\ RecorderIdle
  /\ \E platform \in {"macos", "linux", "windows", "unknown"},
        installed \in SUBSET {"gnome-screenshot", "scrot", "import", "maim", "xdotool"},
        exists \in BOOLEAN,
        h \in { <<>>, <<"--help">> },
        o \in { <<>>, <<"--output", "shot.png">> },
        d \in { <<>>, <<"--delay", "0">>, <<"--delay", "1">>, <<"--delay", "2.5">>,
                <<"--delay", "-1">>, <<"--delay", "soon">>,
                <<"--delay", "Infinity">> } :
       companion =
         [ prog |-> "vscode", pc |-> "main", args |-> o \o d \o h,
           options |-> [output |-> Null, delay |-> Int2Num(5)],
           platform |-> platform, installed |-> installed,
           shown |-> FALSE, entered |-> FALSE, counter |-> Null, sleeps |-> 0,
           captured |-> FALSE, toolIndex |-> 0, attempts |-> << >>,
           success |-> "unset", fileExists |-> exists,
           exitCode |-> -1, reported |-> "" ]

\* main up to the instruction box
VsMain ==
  /\ ToolAt("main")
  /\ LET c == companion
         o == vsParseArgs(c.args, 1, c.options)
         p == [c EXCEPT !.options = o]
     IN companion' =
          IF c.args = << >> \/ \E i \in DOMAIN c.args : c.args[i] = "--help"
          THEN ToolExit(c, 0, "help")
          ELSE IF Falsy(o.output) THEN ToolExit(p, 1, "--output is required")
          ELSE IF c.platform = "windows" THEN ToolExit(p, 1, "Windows is not yet supported")
          ELSE IF c.platform = "unknown" THEN ToolExit(p, 1, "Unknown platform")
          ELSE [p EXCEPT !.shown = TRUE, !.pc = "enter"]
  /\ UNCHANGED recorderVars

\* the user presses Enter; the countdown starts when delay > 0
VsEnter ==
  /\ ToolAt("enter")
  /\ companion' =
       IF GtZero(companion.options.delay)
       THEN [companion EXCEPT !.entered = TRUE, !.pc = "countdown",
                              !.counter = companion.options.delay]
       ELSE [companion EXCEPT !.entered = TRUE, !.pc = "capture"]
  /\ UNCHANGED recorderVars

\* one turn of for (let i = options.delay; i > 0; i--) await sleep(1000)
VsCountdown ==
  /\ ToolAt("countdown")
  /\ GtZero(companion.counter) => companion.sleeps < MaxSleeps
  /\ companion' =
       IF GtZero(companion.counter)
       THEN [companion EXCEPT
               !.sleeps = @ + 1,
               !.counter = IF @.t = "Infinity" THEN @ ELSE Num(@.n - Scale)]
       ELSE [companion EXCEPT !.pc = "capture"]
  /\ UNCHANGED recorderVars

\* the capture function of the platform is called; captureMacOS returns
\* true or false and may have written the file
VsCapture ==
  /\ ToolAt("capture")
  /\ \/ /\ companion.platform = "macos"
        /\ \E ok \in {"true", "false"}, file \in {companion.fileExists, TRUE} :
             companion' = [companion EXCEPT !.captured = TRUE, !.success = ok,
                                            !.fileExists = file, !.pc = "report"]
     \/ /\ companion.platform = "linux"
        /\ companion' = [companion EXCEPT !.captured = TRUE, !.toolIndex = 1,
                                          !.pc = "captureLinux"]
  /\ UNCHANGED recorderVars

captureLinuxGivesUp ==
  /\ ToolAt("captureLinux")
  /\ LET c == companion
         i == c.toolIndex
     IN IF i > Len(LinuxTools)
        THEN companion' = [c EXCEPT !.success = "false", !.pc = "report"]
        ELSE IF LinuxTools[i].needs \subseteq c.installed
        THEN \E ok \in BOOLEAN, file \in {c.fileExists, TRUE} :
               LET tried == [c EXCEPT !.attempts = Append(@, [name |-> LinuxTools[i].name,
                                                                ok |-> ok]),
                                      !.fileExists = file]
               IN companion' =
                    IF ok THEN [tried EXCEPT !.success = "true", !.pc = "report"]
                    ELSE [tried EXCEPT !.success = "false", !.pc = "report"]
        ELSE companion' = [c EXCEPT !.toolIndex = i + 1]
  /\ UNCHANGED recorderVars

\* one turn of the loop over the tools, or the end of the loop
captureLinux ==
  /\ ToolAt("captureLinux")
  /\ LET c == companion
         i == c.toolIndex
     IN IF i > Len(LinuxTools)
        THEN companion' = [c EXCEPT !.success = "false", !.pc = "report"]
        ELSE IF LinuxTools[i].needs \subseteq c.installed
        THEN \E ok \in BOOLEAN, file \in {c.fileExists, TRUE} :
               LET tried == [c EXCEPT !.attempts = Append(@, [name |-> LinuxTools[i].name,
                                                                ok |-> ok]),
                                      !.fileExists = file]
               IN companion' =
                    IF ok THEN [tried EXCEPT !.success = "true", !.pc = "report"]
                    ELSE [tried EXCEPT !.toolIndex = i + 1]
        ELSE companion' = [c EXCEPT !.toolIndex = i + 1]
  /\ UNCHANGED recorderVars

\* success && fs.existsSync(options.output)
VsReport ==
  /\ ToolAt("report")
  /\ companion' =
       IF companion.success = "true" /\ companion.fileExists
       THEN ToolExit(companion, 0, "Screenshot saved!")
       ELSE ToolExit(companion, 1, "Screenshot capture failed")
  /\ UNCHANGED recorderVars

NextVscode ==
  VsMain \/ VsEnter \/ VsCountdown \/ VsCapture \/ captureLinux \/ VsReport

SpecVscode == InitVscode /\ [][NextVscode]_vars

----------------------------------------------------------------------------
(* Vocabulary of the properties *)

Exited == pc = "exited"

Output == options.output.s

\* the directories Init can start from
InitialDirSets == { {".", OsTmpDir} \cup pre : pre \in PreDirs }

\* p with its suffix old swapped for new, p itself when it has no such suffix
SwapSuffix(p, old, new) ==
  IF EndsWith(p, old) THEN SubSeq(p, 1, Len(p) - Len(old)) \o new ELSE p

\* p with its last extension replaced by ext
WithExtension(p, ext) ==
  LET i == LastIndexOf(p, ".")
  IN IF i = 0 THEN p \o ext ELSE SubSeq(p, 1, i - 1) \o ext

TouchedPaths == { t.path : t \in touched }

TouchedBy(who) == { t.path : t \in { u \in touched : u.by \in who } }

\* the intermediate files of a run: what the recording session flushed and
\* the palette image of the GIF derivation
IntermediatePaths == TouchedBy({"playwright", "palette"})

RawCaptures == { p \in TouchedBy({"playwright"}) : EndsWith(p, ".webm") }

CallsOf(tools) == SelectSeq(encoderCalls, LAMBDA c : c.tool \in tools)

Mp4Calls == CallsOf({"mp4"})

GifCalls == CallsOf({"palette", "gif"})

\* every path the requested output path gives a name to
OutputRelatedPaths ==
  { Output, WebmOutput(Output), GifPath(Output),
    SwapSuffix(Output, ".mp4", ".webm"), SwapSuffix(Output, ".mp4", ".gif"),
    WithExtension(Output, ".webm"), WithExtension(Output, ".gif") }

NoSideEffects ==
  /\ browser = "none"
  /\ setupContext = NoContext
  /\ recordContext = NoContext
  /\ tempDir = ""
  /\ dirs \in InitialDirSets
  /\ files = << >>
  /\ touched = {}
  /\ encoderCalls = << >>

----------------------------------------------------------------------------
\* C1: on every path on which the per-run temporary directory has been
\* created, that directory no longer exists when the process exits.
C1_TempDirRemovedAtExit ==
  (Exited /\ tempDir # "") => tempDir \notin dirs

\* C2: every intermediate file of a run (raw capture, GIF palette image)
\* lies inside the per-run temporary directory, and none exists when the
\* run ends, whether the GIF step succeeded or failed.
C2_IntermediatesConfinedAndGone ==
  /\ \A p \in IntermediatePaths : Inside(p, tempDir)
  /\ Exited => \A p \in IntermediatePaths : ~Exists(files, p)

----------------------------------------------------------------------------
LacksRequired(a) == "--url" \notin Range(a) \/ "--output" \notin Range(a)

\* C3 as stated: for every argument list that lacks --url or lacks --output,
\* the empty list included, the recorder exits with nonzero status without
\* launching a browser, creating a directory or invoking the encoder.
\* (Stated here for the lists without --help, the empty list among them.)
C3_MissingArgumentExitsNonzero ==
  (LacksRequired(args) /\ "--help" \notin Range(args)) =>
    /\ NoSideEffects
    /\ pc \in {"main", "validate", "exited"}
    /\ Exited => exitCode # 0

\* C3 amended: a non-empty argument list without --help that lacks --url or
\* --output exits with status 1; the empty list, like a list with --help,
\* prints the usage text and exits with status 0; in both cases no browser
\* is launched, no directory created and no encoder invoked.
C3_MissingArgumentAmended ==
  LacksRequired(args) =>
    /\ NoSideEffects
    /\ pc \in {"main", "validate", "exited"}
    /\ Exited => exitCode = IF ShowsHelp(args) THEN 0 ELSE 1
    /\ (Exited /\ ~ShowsHelp(args)) =>
         reported \in { {"Error: --url is required"}, {"Error: --output is required"} }

C3_Witness ==
  /\ Exited
  /\ exitCode = 1
  /\ "--url" \in Range(args)
  /\ "--output" \notin Range(args)
  /\ ~Falsy(options.url)
  /\ reported = {"Error: --output is required"}

----------------------------------------------------------------------------
TranscodeFailed == mp4Success = "false" /\ pc # "keepWebm"

\* C4: when the transcode fails the run does not become fatal: the raw
\* capture is copied to the output path with its .mp4 suffix swapped for
\* .webm, the failure is reported, GIF derivation is never invoked, and the
\* run finishes its normal path.
C4_TranscodeFailureKeepsWebm ==
  (TranscodeFailed /\ EndsWith(Output, ".mp4")) =>
    /\ "ffmpeg MP4 conversion failed" \in reported
    /\ [path |-> SwapSuffix(Output, ".mp4", ".webm"), by |-> "copy"] \in touched
    /\ GifCalls = << >>
    /\ err = ""
    /\ Exited => exitCode = 0

----------------------------------------------------------------------------
----------------------------------------------------------------------------
NavigationFailed == err \in {"setupGoto", "recordGoto"}

\* C6: if page navigation fails in the setup pass or in the recording pass
\* the run is fatal: exit status nonzero, the encoder never invoked, and no
\* file created or modified at the requested output path or at its .webm
\* and .gif siblings.
C6_NavigationFailureIsFatal ==
  NavigationFailed =>
    /\ pc \in {"finally", "rejected", "exited"}
    /\ encoderCalls = << >>
    /\ TouchedPaths \cap OutputRelatedPaths = {}
    /\ \A p \in OutputRelatedPaths : ~Exists(files, p)
    /\ Exited => exitCode # 0

C6_Witness ==
  /\ Exited
  /\ err = "recordGoto"
  /\ setupContext.gotos = 1
  /\ recordContext.gotos = 0
  /\ exitCode = 1

----------------------------------------------------------------------------
\* the recording session has been closed, the lookup has run, and the
\* temporary directory held no .webm file
NoCaptureFound ==
  /\ recordContext.state = "closed"
  /\ pc # "findVideo"
  /\ VideoFiles(tempListing) = << >>

\* C7: if the temporary directory holds no raw capture after the recording
\* session is closed the run is fatal: an error is raised, the exit status
\* is nonzero, neither the transcode nor the GIF step is invoked and nothing
\* is written at the output path.
C7_NoCaptureIsFatal ==
  NoCaptureFound =>
    /\ err = "No video file was recorded"
    /\ pc \in {"finally", "rejected", "exited"}
    /\ encoderCalls = << >>
    /\ TouchedPaths \cap OutputRelatedPaths = {}
    /\ Exited => /\ exitCode # 0
                 /\ "Error: No video file was recorded" \in reported

C7_Witness ==
  /\ Exited
  /\ NoCaptureFound
  /\ tempListing # << >>
  /\ exitCode = 1

----------------------------------------------------------------------------
GifFailed ==
  /\ mp4Success = "true"
  /\ \E i \in DOMAIN encoderCalls :
       encoderCalls[i].tool \in {"palette", "gif"} /\ ~encoderCalls[i].ok

\* C8: if GIF derivation fails after a successful transcode, the failure is
\* reported, the video written at the requested output path stays in place
\* unmodified, and the process exits with status zero.
C8_GifFailureKeepsVideo ==
  GifFailed =>
    /\ "ffmpeg GIF generation failed" \in reported
    /\ Exists(files, Output)
    /\ files[Output] = Content("mp4", recordedVideo, TrimFlag(options.trim))
    /\ { t \in touched : t.path = Output } = {[path |-> Output, by |-> "mp4"]}
    /\ err = ""
    /\ pc \in {"finally", "resolved", "exited"}
    /\ Exited => exitCode = 0

C8_Witness ==
  /\ Exited
  /\ GifFailed
  /\ Len(GifCalls) = 2
  /\ GifCalls[1].ok
  /\ ~GifCalls[2].ok
  /\ exitCode = 0

----------------------------------------------------------------------------
\* C9: when --no-gif is given (options.noGif is set), GIF derivation is
\* never invoked on any path of the run, no file is created or modified by
\* it or at the .gif sibling of the output path, and the video is produced
\* as without the flag: one transcode of the raw capture to the output path
\* with the trim offset.
C9_NoGifSkipsDerivation ==
  options.noGif =>
    /\ pc \notin {"gifPalette", "gifRender"}
    /\ GifCalls = << >>
    /\ TouchedBy({"palette", "gif"}) = {}
    /\ WithExtension(Output, ".gif") \notin TouchedPaths
    /\ GifPath(Output) # Output => GifPath(Output) \notin TouchedPaths
    /\ \A i \in DOMAIN encoderCalls :
         /\ i = 1
         /\ encoderCalls[i].tool = "mp4"
         /\ encoderCalls[i].in = recordedVideo
         /\ encoderCalls[i].out = Output
         /\ encoderCalls[i].ss = TrimFlag(options.trim)
    /\ (Exited /\ mp4Success = "true") =>
         /\ files[Output] = Content("mp4", recordedVideo, TrimFlag(options.trim))
         /\ exitCode = 0

C9_Witness ==
  /\ Exited
  /\ options.noGif
  /\ mp4Success = "true"
  /\ Exists(files, Output)
  /\ exitCode = 0

----------------------------------------------------------------------------
\* round(duration * 60) on the decimal grid, halves upwards; NaN for NaN
ExpectedSteps(duration) ==
  IF duration.t # "number" THEN NaN
  ELSE Num(((2 * 60 * duration.n + Scale) \div (2 * Scale)) * Scale)

\* max(1, ceil(speed / 60)) in pixels, for a numeric speed
ExpectedDelta(speed) ==
  IF speed.n <= 60 * Scale THEN 1
  ELSE (speed.n + 60 * Scale - 1) \div (60 * Scale)

ScrollLoopEntered == pixelsPerFrame # Null

ScrollLoopLeft == pc = "recordClose"

\* C10 as stated: for every duration and speed, scrollForDuration executes
\* exactly round(duration * 60) steps, each advancing the requested offset
\* by max(1, ceil(speed / 60)) pixels, so that after the loop the last
\* requested offset is the initial offset plus steps * delta.
\* (Stated here for the durations and speeds that are numbers.)
C10_StepsAndDeltaForEveryInput ==
  (ScrollLoopLeft /\ options.duration.t = "number" /\ options.speed.t = "number") =>
    /\ Int2Num(scrollCalls) = ExpectedSteps(options.duration)
    /\ pixelsPerFrame = Int2Num(ExpectedDelta(options.speed))
    /\ currentScrollY =
         Int2Num(firstScrollY.n \div Scale + scrollCalls * ExpectedDelta(options.speed))

\* C10 amended: for every numeric duration with round(duration * 60) >= 0
\* and every numeric speed the loop executes exactly round(duration * 60)
\* steps, each advancing the requested offset by max(1, ceil(speed / 60))
\* pixels, so that the last requested offset is the initial offset plus
\* steps * delta; for a negative or non-numeric duration no step is
\* executed, and for a non-numeric speed the delta is NaN.
C10_StepsAndDeltaAmended ==
  ScrollLoopEntered =>
    /\ IF options.speed.t = "number"
       THEN /\ pixelsPerFrame = Int2Num(ExpectedDelta(options.speed))
            /\ currentScrollY =
                 Int2Num(firstScrollY.n \div Scale
                         + scrollCalls * ExpectedDelta(options.speed))
       ELSE pixelsPerFrame = NaN
    /\ ScrollLoopLeft =>
         IF options.duration.t = "number" /\ ExpectedSteps(options.duration).n >= 0
         THEN Int2Num(scrollCalls) = ExpectedSteps(options.duration)
         ELSE scrollCalls = 0

C10_Witness ==
  /\ ScrollLoopLeft
  /\ options.duration = Num(25)
  /\ options.speed = Int2Num(61)
  /\ scrollCalls = 2
  /\ firstScrollY = Int2Num(1)
  /\ currentScrollY = Int2Num(5)

----------------------------------------------------------------------------
TranscodeSucceeded == Exited /\ mp4Success = "true"

\* C11 as stated: when both navigations, the capture and the transcode
\* succeed, at process exit a video file exists at the requested output
\* path, produced from the raw capture with a start offset of trim seconds,
\* and its length is the scroll duration minus trim.
\* (Stated here for a numeric trim with 0 < trim <= duration.)
C11_LengthIsDurationMinusTrim ==
  ( /\ TranscodeSucceeded
    /\ options.duration.t = "number"
    /\ options.trim.t = "number"
    /\ 0 < options.trim.n
    /\ options.trim.n <= options.duration.n ) =>
    /\ Exists(files, Output)
    /\ files[Output].kind = "mp4"
    /\ files[Output].from = recordedVideo
    /\ files[Output].ss = options.trim
    /\ videoLength = 60 * (options.duration.n - options.trim.n)

\* C11 amended: when both navigations, the capture and the transcode
\* succeed, at process exit a video file exists at the requested output
\* path, produced from the raw capture, which holds the navigation of the
\* recording pass, the 2000 ms settle wait and one 1000/60 ms sleep per
\* scroll step; the start offset is trim seconds when trim is a number
\* above 0 and the length is then the capture's length minus trim (zero
\* when trim exceeds it); otherwise no offset is passed and the length is
\* the capture's length.  Lengths are in ticks of 1/60 ms.
C11_LengthIsCaptureMinusOffset ==
  TranscodeSucceeded =>
    /\ setupContext.gotos = 1 /\ recordContext.gotos = 1
    /\ Exists(files, Output)
    /\ files[Output].kind = "mp4"
    /\ files[Output].from = recordedVideo
    /\ recordedVideo \in RawCaptures
    /\ \E ms \in NavigationMillis :
         captureLength = 60 * (ms + 2000) + 1000 * scrollCalls
    /\ IF options.trim.t = "number" /\ options.trim.n > 0
       THEN /\ files[Output].ss = options.trim
            /\ videoLength = IF 60 * options.trim.n >= captureLength THEN 0
                             ELSE captureLength - 60 * options.trim.n
       ELSE /\ files[Output].ss = Null
            /\ videoLength = captureLength

C11_Witness ==
  /\ TranscodeSucceeded
  /\ options.trim = Num(25)
  /\ options.duration = Num(50)
  /\ scrollCalls = 3
  /\ captureLength = 60 * 2500 + 3000
  /\ videoLength = 60 * 2500 + 3000 - 1500
  /\ files[Output].ss = Num(25)

----------------------------------------------------------------------------
\* the paths a run names after its output path
OutputPathsOf(output) ==
  { output, WebmOutput(output), GifPath(output),
    WithExtension(output, ".webm"), WithExtension(output, ".gif") }

\* C12: two invocations running concurrently with different output paths
\* never read, write or delete the same file path (every file a run
\* touches being one of its own output paths or a file of its own
\* temporary directory).
C12_ConcurrentRunsShareNoPath ==
  \A p \in pair[1].accessed \cap pair[2].accessed :
    \E r \in PairRuns :
      p \in OutputPathsOf(pair[r].output) \/ Inside(p, pair[r].tempDir)

----------------------------------------------------------------------------
\* the positions of the run before the scroll loop has been left
BeforeScrollEnd ==
  {"main", "validate", "prepare", "launch", "newSetupContext", "setupGoto",
   "setupWait", "setupTitle", "setupInject", "setupRender", "setupClose",
   "newRecordContext", "recordGoto", "recordInject", "recordSettle",
   "scrollInit", "scrollLoop"}

\* a step of the run that ran the encoder
EncoderRan == encoderCalls' # encoderCalls

\* C13: within one run at most one browser process is launched and at most
\* one encoder subprocess is in flight at any time: a step runs the encoder
\* at most once, the invocation has exited (its result is known) when the
\* step ends and the run moves on to its next step, and no encoder runs
\* while scroll steps are still being executed.
C13_OneBrowserOneEncoderAtATime ==
  /\ [](launches <= 1)
  /\ [](encoderCalls # << >> => pc \notin BeforeScrollEnd)
  /\ [][EncoderRan =>
          /\ Len(encoderCalls') = Len(encoderCalls) + 1
          /\ SubSeq(encoderCalls', 1, Len(encoderCalls)) = encoderCalls
          /\ encoderCalls'[Len(encoderCalls')].ok \in BOOLEAN
          /\ pc \in {"convert", "gifPalette", "gifRender"}
          /\ pc' # pc
          /\ scrollCalls' = scrollCalls
          /\ launches' = launches]_vars
  /\ [][scrollCalls' # scrollCalls => ~EncoderRan /\ encoderCalls = << >>]_vars

C13_Witness ==
  /\ Exited
  /\ launches = 1
  /\ scrollCalls = 3
  /\ Len(encoderCalls) = 3
  /\ \A i \in 1..3 : encoderCalls[i].ok

----------------------------------------------------------------------------
\* the part of s between the first occurrence of open and the last
\* occurrence of close
Between(s, open, close) ==
  SubSeq(s, IndexOf(s, open) + Len(open), LastIndexOf(s, close) - 1)

\* the two texts embedded in the overlay markup
EmbeddedTitle(html) ==
  Between(html, "<div class=\"title\">", "</div><span class=\"url-text\">")

EmbeddedUrl(html) ==
  Between(html, "<span class=\"url-text\">", "</span></div><div id=\"browser-frame-left\">")

Entities ==
  << [e |-> "&amp;", c |-> "&"], [e |-> "&lt;", c |-> "<"], [e |-> "&gt;", c |-> ">"],
     [e |-> "&quot;", c |-> "\""], [e |-> "&#039;", c |-> "'"] >>

\* the entities that start at position i of s
EntitiesAt(s, i) ==
  { k \in DOMAIN Entities :
      /\ i + Len(Entities[k].e) - 1 <= Len(s)
      /\ SubSeq(s, i, i + Len(Entities[k].e) - 1) = Entities[k].e }

NoRawMarkup(s) ==
  \A i \in 1..Len(s) : CharAt(s, i) \notin {"<", ">", "\"", "'"}

AmpersandsStartEntities(s) ==
  \A i \in 1..Len(s) : CharAt(s, i) = "&" => EntitiesAt(s, i) # {}

\* s with every entity replaced by its character, left to right, once
RECURSIVE DecodeEntities(_)
DecodeEntities(s) ==
  IF Len(s) = 0 THEN ""
  ELSE IF EntitiesAt(s, 1) # {}
       THEN LET k == CHOOSE k \in EntitiesAt(s, 1) : TRUE
            IN Entities[k].c
               \o DecodeEntities(SubSeq(s, Len(Entities[k].e) + 1, Len(s)))
       ELSE CharAt(s, 1) \o DecodeEntities(SubSeq(s, 2, Len(s)))

SafelyEmbedded(embedded, original) ==
  /\ NoRawMarkup(embedded)
  /\ AmpersandsStartEntities(embedded)
  /\ DecodeEntities(embedded) = original

\* C14: for every title and display URL, the text embedded in the overlay
\* markup contains no raw '<', '>', '"' or single quote, every '&' in it
\* starts one of the five entities, and decoding the entities returns the
\* original string.
C14_EmbeddedTextIsEscapedOnce ==
  \A i \in DOMAIN injected :
    /\ SafelyEmbedded(EmbeddedTitle(injected[i].html), injected[i].title.s)
    /\ SafelyEmbedded(EmbeddedUrl(injected[i].html), injected[i].url)

C14_Witness ==
  /\ Len(injected) = 1
  /\ injected[1].title.s = "&amp;<"
  /\ EmbeddedTitle(injected[1].html) = "&amp;amp;&lt;"
  /\ injected[1].url = "example.com/it's&amp;"
  /\ EmbeddedUrl(injected[1].html) = "example.com/it&#039;s&amp;amp;"

----------------------------------------------------------------------------
\* the options that take a value: name, flag and conversion of the value
ValueOptions ==
  { [o |-> "url", f |-> "--url", conv |-> "string"],
    [o |-> "output", f |-> "--output", conv |-> "string"],
    [o |-> "duration", f |-> "--duration", conv |-> "float"],
    [o |-> "speed", f |-> "--speed", conv |-> "float"],
    [o |-> "wait", f |-> "--wait", conv |-> "int"],
    [o |-> "trim", f |-> "--trim", conv |-> "float"],
    [o |-> "title", f |-> "--title", conv |-> "string"],
    [o |-> "width", f |-> "--width", conv |-> "int"],
    [o |-> "height", f |-> "--height", conv |-> "int"] }

\* the defaults as documented
DocumentedDefaults ==
  [ url |-> Null, output |-> Null, duration |-> Int2Num(10), speed |-> Int2Num(300),
    wait |-> Int2Num(3000), trim |-> Int2Num(3), title |-> Null, noGif |-> FALSE,
    width |-> Int2Num(900), height |-> Int2Num(900) ]

\* the token after position i as the option's value
ValueAfter(a, i, conv) ==
  LET raw == IF i < Len(a) THEN Str(a[i + 1]) ELSE Undefined
  IN CASE conv = "string" -> raw
       [] conv = "float"  -> parseFloat(raw)
       [] conv = "int"    -> parseInt(raw)

MaxOf(S) == CHOOSE i \in S : \A j \in S : j <= i

\* position i holds the value of the value-taking flag before it
RECURSIVE IsValue(_, _)
IsValue(a, i) ==
  /\ i > 1
  /\ a[i - 1] \in { v.f : v \in ValueOptions }
  /\ ~IsValue(a, i - 1)

\* the positions at which f is read as a flag
FlagOccurrences(a, f) == { i \in DOMAIN a : a[i] = f /\ ~IsValue(a, i) }

Parsed == pc = "validate"

\* C16: parseArgs returns the documented default of every option whose
\* flag does not occur, and for a flag that occurs the value that follows
\* its last occurrence; arguments that are not recognised flags change no
\* option.  A token that directly follows a value-taking flag is that
\* flag's value, not an occurrence of a flag.  The value is the token
\* itself for url, output and title (undefined when nothing follows), its
\* parseFloat for duration, speed and trim, its parseInt for wait, width
\* and height; GIF is disabled exactly when --no-gif occurs.
C16_LastFlagOccurrenceWins ==
  Parsed =>
    /\ \A v \in ValueOptions :
         options[v.o] = IF FlagOccurrences(args, v.f) = {} THEN DocumentedDefaults[v.o]
                        ELSE ValueAfter(args, MaxOf(FlagOccurrences(args, v.f)), v.conv)
    /\ options.noGif = (FlagOccurrences(args, "--no-gif") # {})
    /\ DOMAIN options = DOMAIN DocumentedDefaults

C16_Witness ==
  /\ Parsed
  /\ args = <<"--duration", "x", "--duration", "7.5">>
  /\ options.duration = Num(7500)
  /\ options.speed = Int2Num(300)
  /\ options.title = Null
  /\ ~options.noGif

----------------------------------------------------------------------------
\* C17: when GIF derivation is enabled and the transcode succeeded, the
\* recorder invokes GIF derivation exactly once, with the requested output
\* path as its input and with an output path that lies in the same
\* directory as the video and differs from it, for every requested output
\* path.
C17_GifDerivedOnceIntoSibling ==
  (Exited /\ ~options.noGif /\ mp4Success = "true") =>
    /\ Len(gifInvoked) = 1
    /\ gifInvoked[1].mp4Path = Output
    /\ Dirname(gifInvoked[1].gifPath) = Dirname(Output)
    /\ gifInvoked[1].gifPath # Output

----------------------------------------------------------------------------
\* a --title value was given (an empty one counts as none)
TitleGiven == ~Falsy(options.title)

\* the positions between the measurement of the title and the second load
\* of the page, during which the page has the title the setup pass saw
TitleJustMeasured ==
  {"setupInject", "setupRender", "setupClose", "newRecordContext", "recordGoto"}

\* C18: the title shown in the overlay is the --title value when one is
\* given and otherwise the page's own title as measured in the setup pass;
\* the recording pass injects the overlay with exactly the same (title,
\* display URL) pair as the setup pass and never re-measures the title,
\* whatever title the page has when it is loaded again.
C18_OverlayTitleFixedInSetup ==
  /\ pc \in TitleJustMeasured =>
       pageTitle = IF TitleGiven THEN options.title ELSE Str(docTitle)
  /\ Len(injected) <= 2
  /\ \A i \in DOMAIN injected :
       /\ injected[i].page = IF i = 1 THEN "setup" ELSE "record"
       /\ injected[i].title = pageTitle
       /\ injected[i].url = displayUrl
       /\ injected[i].title = injected[1].title
       /\ injected[i].url = injected[1].url
       /\ injected[i].html = injected[1].html

C18_Witness ==
  /\ Len(injected) = 2
  /\ ~TitleGiven
  /\ injected[1].title = Str("First map")
  /\ docTitle = "Loading"
  /\ injected[2].title = Str("First map")

----------------------------------------------------------------------------
\* C19: the setup session is closed before the recording session is
\* created, so at most one browser session is open at any time of a run;
\* the setup session has no video-capture sink and the recording session
\* is the only one bound to the temporary directory.
C19_OneSessionAtATime ==
  /\ ~(setupContext.state = "open" /\ recordContext.state = "open")
  /\ recordContext.state # "none" => setupContext.state = "closed"
  /\ setupContext.videoDir = ""
  /\ recordContext.state # "none" =>
       /\ tempDir # ""
       /\ recordContext.videoDir = tempDir

C19_Witness ==
  /\ pc = "scrollLoop"
  /\ setupContext = [state |-> "closed", videoDir |-> "", gotos |-> 1]
  /\ recordContext = [state |-> "open", videoDir |-> tempDir, gotos |-> 1]
  /\ tempDir \in dirs

----------------------------------------------------------------------------
RecordOverlayInjected == \E i \in DOMAIN injected : injected[i].page = "record"

RecordSettled ==
  \E i \in DOMAIN waits : waits[i] = [page |-> "record", ms |-> Int2Num(2000)]

\* the positions at which the run looks up, transcodes or derives from
\* the raw capture
AfterRecording ==
  {"findVideo", "convert", "keepWebm", "gifCheck", "gifPalette", "gifRender"}

\* C20: in the recording pass the steps occur strictly in this order:
\* navigate, inject overlay, fixed settle wait, all scroll steps, close
\* recording session, look up the raw capture, transcode, optional GIF
\* derivation; the raw capture is never read and the encoder never invoked
\* before the recording session has been closed.
C20_RecordingPassOrder ==
  /\ RecordOverlayInjected => recordContext.gotos = 1
  /\ RecordSettled => RecordOverlayInjected
  /\ (ScrollLoopEntered \/ scrollCalls > 0) => RecordSettled
  /\ recordContext.state = "closed" =>
       ScrollLoopEntered /\ ~FrameBelow(frame, totalFrames)
  /\ pc \in AfterRecording => recordContext.state = "closed"
  /\ (captureLength >= 0 \/ tempListing # << >> \/ recordedVideo # "") =>
       recordContext.state = "closed"
  /\ encoderCalls # << >> =>
       /\ recordContext.state = "closed"
       /\ recordedVideo # ""
       /\ encoderCalls[1].tool = "mp4"
       /\ encoderCalls[1].in = recordedVideo
       /\ \A i \in 2..Len(encoderCalls) : encoderCalls[i].tool # "mp4"
  /\ gifInvoked # << >> => mp4Success = "true" /\ Len(encoderCalls) >= 1

C20_Witness ==
  /\ pc = "finally"
  /\ recordContext.state = "closed"
  /\ RecordSettled
  /\ scrollCalls = 3
  /\ recordedVideo # ""
  /\ Len(gifInvoked) = 1
  /\ Len(encoderCalls) = 3
  /\ encoderCalls[3].tool = "gif"

----------------------------------------------------------------------------
\* a session is created once and ended once: it is opened from nothing
\* and, once open, is closed by its own close() or by browser.close()
SessionStep(before, after) ==
  before.state # after.state =>
    \/ before.state = "none" /\ after.state = "open"
    \/ before.state = "open" /\ after.state \in {"closed", "disposed"}

\* the navigations of a session, the one that threw included
NavigationsOf(ctx, step) == ctx.gotos + (IF err = step THEN 1 ELSE 0)

\* C21: every browser session created during a run (setup or recording)
\* is used for exactly one page load and is closed exactly once before the
\* process exits, on every path, including the paths where navigation,
\* overlay injection or a scroll step throws while the session is open.
C21_SessionsLoadOnceCloseOnce ==
  /\ [][SessionStep(setupContext, setupContext')
        /\ SessionStep(recordContext, recordContext')]_vars
  /\ [](setupContext.gotos <= 1 /\ recordContext.gotos <= 1)
  /\ [](Exited =>
         /\ setupContext.state \in {"none", "closed", "disposed"}
         /\ recordContext.state \in {"none", "closed", "disposed"}
         /\ setupContext.state # "none" =>
              NavigationsOf(setupContext, "setupGoto") = 1
         /\ recordContext.state # "none" =>
              NavigationsOf(recordContext, "recordGoto") = 1)

C21_Witness ==
  /\ Exited
  /\ err = "scrollLoop"
  /\ scrollCalls = 1
  /\ setupContext.state = "closed"
  /\ recordContext.state = "disposed"
  /\ recordContext.gotos = 1

----------------------------------------------------------------------------
WaitsOf(page) == SelectSeq(waits, LAMBDA w : w.page = page)

\* the options with the --wait value blanked out
OptionsButWait == [options EXCEPT !.wait = Null]

\* what the recording session and the encoder are asked to do, given the
\* options o; ready tells how far the run has come
ExpectedRecordWaits(ready) ==
  IF ready THEN << [page |-> "record", ms |-> Int2Num(2000)] >> ELSE << >>

ExpectedEncoderCall(o, c) ==
  CASE c.tool = "mp4" ->
         /\ c.in = recordedVideo /\ c.out = o.output.s
         /\ c.ss = IF o.trim.t = "number" /\ o.trim.n > 0 THEN o.trim ELSE Null
    [] c.tool = "palette" ->
         c.in = o.output.s /\ c.out = PalettePath /\ c.ss = Null
    [] c.tool = "gif" ->
         c.in = o.output.s /\ c.out = GifPath(o.output.s) /\ c.ss = Null

PastRecordSettle ==
  pc \in {"scrollInit", "scrollLoop", "recordClose"} \cup AfterRecording
  \/ recordContext.state = "closed" \/ ScrollLoopEntered

\* C22: the --wait value affects only the setup pass: what the recording
\* session does (its navigation, its overlay, its fixed 2000 ms wait, its
\* scroll steps) and the arguments of every encoder call are determined by
\* the options other than --wait, so that two runs differing only in
\* --wait agree on them; a --wait of 0 or less skips the setup-pass pause
\* entirely.
C22_WaitAffectsOnlySetupPass ==
  LET o == OptionsButWait IN
  /\ recordContext.gotos <= 1
  /\ \A i \in DOMAIN injected :
       injected[i].page = "record" =>
         /\ injected[i].url = DisplayUrl(o.url.s)
         /\ injected[i].title = injected[1].title
         /\ ~Falsy(o.title) => injected[i].title = o.title
  /\ PastRecordSettle => WaitsOf("record") = ExpectedRecordWaits(TRUE)
  /\ ~PastRecordSettle /\ pc # "finally" /\ pc # "rejected" /\ ~Exited =>
       WaitsOf("record") = ExpectedRecordWaits(FALSE)
  /\ Len(WaitsOf("record")) <= 1
  /\ ScrollLoopEntered =>
       /\ pixelsPerFrame = PixelsPerFrame(o.speed)
       /\ totalFrames = TotalFrames(o.duration)
       /\ o.speed.t = "number" =>
            currentScrollY = Int2Num(firstScrollY.n \div Scale
                                     + scrollCalls * ExpectedDelta(o.speed))
  /\ \A i \in DOMAIN encoderCalls : ExpectedEncoderCall(o, encoderCalls[i])
  /\ pc \in {"setupTitle", "setupInject"} =>
       WaitsOf("setup") = IF options.wait.t = "number" /\ options.wait.n > 0
                          THEN << [page |-> "setup", ms |-> options.wait] >>
                          ELSE << >>

C22_Witness ==
  /\ Exited
  /\ options.wait = Int2Num(0)
  /\ waits = << [page |-> "setup", ms |-> Int2Num(300)],
               [page |-> "record", ms |-> Int2Num(2000)] >>
  /\ scrollCalls = 3
  /\ Len(encoderCalls) >= 1

----------------------------------------------------------------------------
RECURSIVE TotalMs(_)
TotalMs(ws) == IF ws = << >> THEN 0 ELSE Head(ws).ms.n + TotalMs(Tail(ws))

\* settle times of the two passes, in thousandths of a millisecond
SetupSettle == TotalMs(WaitsOf("setup"))
RecordingSettle == TotalMs(WaitsOf("record"))

BothPassesSettled == RecordSettled /\ PastRecordSettle

\* C23 as stated: for every configured --wait value the recording pass
\* settles (2000 ms) for a shorter time than the setup pass (the --wait
\* pause plus the 300 ms render wait).
C23_RecordingSettleShorterThanSetup ==
  BothPassesSettled => RecordingSettle < SetupSettle

\* C23, amended: the recording pass settles 2000 ms; the setup pass settles
\* the --wait pause (only when --wait is greater than 0) plus 300 ms; the
\* recording settle is the shorter one exactly when --wait exceeds 1700 ms.
C23_SettleTimesCompared ==
  BothPassesSettled =>
    /\ RecordingSettle = 2000 * Scale
    /\ SetupSettle = (IF options.wait.t = "number" /\ options.wait.n > 0
                      THEN options.wait.n ELSE 0) + 300 * Scale
    /\ (RecordingSettle < SetupSettle) <=>
         (options.wait.t = "number" /\ options.wait.n > 1700 * Scale)

C23_Witness ==
  /\ BothPassesSettled
  /\ options.wait = Int2Num(250)
  /\ SetupSettle = 550 * Scale
  /\ RecordingSettle = 2000 * Scale
  /\ scrollCalls = 1

----------------------------------------------------------------------------
\* ticks of the raw capture that precede the first scroll step, and the
\* ticks spent in the scroll loop (one frame sleep per step)
ScrollTicks == 1000 * scrollCalls
LeadIn == captureLength - ScrollTicks

TrimTicks == IF options.trim.t = "number" /\ options.trim.n > 0
             THEN 60 * options.trim.n ELSE 0

\* the output holds no frame captured before the first scroll step
NoPreScrollFrame == videoLength <= ScrollTicks

----------------------------------------------------------------------------
StepTaken == scrollCalls' = scrollCalls + 1

----------------------------------------------------------------------------
ToolExited(prog) == ToolAt("exited") /\ companion.prog = prog

\* C26: in the screenshot tool, once the browser has been launched it is
\* closed before the process exits, on every path: successful capture, an
\* error thrown by navigation, script execution or selector wait, and an
\* --element selector that matches nothing.
C26_BrowserClosedBeforeExit ==
  ToolExited("capture") /\ companion.launches > 0 => companion.browser = "closed"

\* C27: in the fixed-duration recorder an output path whose extension is
\* not .gif, .mp4 or .webm makes the process exit with status 1 before any
\* temporary directory is created or browser launched; and whenever the
\* temporary directory has been created (success, navigation error,
\* conversion error, browser launch failure) it has been removed when the
\* process exits.
C27_ExtensionCheckedTempDirRemoved ==
  ToolExited("record-video") =>
    LET o == companion.options IN
    /\ (~Falsy(o.url) /\ ~Falsy(o.output)
          /\ toLowerCase(extname(o.output.s)) \notin {".gif", ".mp4", ".webm"}) =>
         /\ companion.exitCode = 1
         /\ companion.tempDir = "" /\ companion.tempDirs = {}
         /\ companion.launches = 0
    /\ companion.tempDir # "" => companion.tempDir \notin companion.tempDirs

SessionNamed == ~Falsy(companion.options.session)

SessionFileExists ==
  SessionPath(companion.options.session.s) \in companion.sessionFiles

\* C28: in the screenshot tool and in the fixed-duration recorder, when
\* --session names a session whose file does not exist the process exits
\* with status 1 before any browser is launched; when the file exists it is
\* the storage state of the single browser session created; when --session
\* is not given no stored state is used.  (--session as the last argument
\* names no session.)
C28_SessionResolvedBeforeLaunch ==
  (companion # << >> /\ companion.prog \in {"capture", "record-video"}) =>
    /\ companion.launches <= 1
    /\ Len(companion.contexts) <= 1
    /\ Len(companion.contexts) = 1 => companion.launches = 1
    /\ (SessionNamed /\ ~SessionFileExists) =>
         /\ companion.launches = 0 /\ companion.contexts = << >>
         /\ companion.browser = "none"
         /\ companion.pc \in {"validate", "exited"}
         /\ companion.pc = "exited" => companion.exitCode = 1
    /\ (SessionNamed /\ SessionFileExists) =>
         \A i \in DOMAIN companion.contexts :
           companion.contexts[i] = Str(SessionPath(companion.options.session.s))
    /\ ~SessionNamed =>
         \A i \in DOMAIN companion.contexts : companion.contexts[i] = Undefined

C28_Witness ==
  /\ ToolExited("record-video")
  /\ companion.exitCode = 0
  /\ companion.options.session = Str("github")
  /\ companion.contexts = << Str("/home/user/.playwright-sessions/github.json") >>
  /\ companion.outputs = {"clips/OUT.MP4"}

----------------------------------------------------------------------------
\* the order the documentation gives, with the commands each tool needs
DocumentedLinuxOrder ==
  << "gnome-screenshot", "scrot", "import (ImageMagick)", "maim" >>

CommandsOf(name) ==
  CASE name = "gnome-screenshot"     -> {"gnome-screenshot"}
    [] name = "scrot"                -> {"scrot"}
    [] name = "import (ImageMagick)" -> {"import", "xdotool"}
    [] name = "maim"                 -> {"maim", "xdotool"}

PlaceOf(name) ==
  CHOOSE i \in DOMAIN DocumentedLinuxOrder : DocumentedLinuxOrder[i] = name

IsInstalled(name) == CommandsOf(name) \subseteq companion.installed

LinuxCaptureCalled ==
  companion # << >> /\ companion.prog = "vscode" /\ companion.platform = "linux"
  /\ companion.captured

LinuxCaptureReturned == LinuxCaptureCalled /\ companion.pc \in {"report", "exited"}

\* C29: captureLinux tries the tools in the fixed order gnome-screenshot,
\* scrot, ImageMagick import, maim; it skips a tool that is not installed
\* (for import and maim: the tool or xdotool is missing), moves to the next
\* tool when an installed one fails, returns true at the first tool that
\* succeeds without trying any later tool, and returns false only when no
\* installed tool succeeded.
C29_LinuxToolsInOrderFirstSuccessWins ==
  LinuxCaptureCalled =>
    LET a == companion.attempts IN
    /\ \A j \in DOMAIN a :
         /\ a[j].name \in Range(DocumentedLinuxOrder)
         /\ IsInstalled(a[j].name)
         /\ \A k \in DOMAIN a : j < k => PlaceOf(a[j].name) < PlaceOf(a[k].name)
         /\ j < Len(a) => ~a[j].ok
         /\ \A i \in 1..(PlaceOf(a[j].name) - 1) :
              IsInstalled(DocumentedLinuxOrder[i]) =>
                \E k \in 1..(j - 1) : a[k].name = DocumentedLinuxOrder[i]
         /\ a[j].ok => LinuxCaptureReturned /\ companion.success = "true"
    /\ LinuxCaptureReturned =>
         /\ companion.success \in {"true", "false"}
         /\ companion.success = "true" <=> (a # << >> /\ a[Len(a)].ok)
         /\ companion.success = "false" =>
              \A i \in DOMAIN DocumentedLinuxOrder :
                IsInstalled(DocumentedLinuxOrder[i]) =>
                  \E j \in DOMAIN a : /\ a[j].name = DocumentedLinuxOrder[i]
                                       /\ ~a[j].ok

C29_Witness ==
  /\ LinuxCaptureReturned
  /\ companion.installed = {"gnome-screenshot", "import", "maim", "xdotool"}
  /\ companion.attempts = << [name |-> "gnome-screenshot", ok |-> FALSE],
                             [name |-> "import (ImageMagick)", ok |-> TRUE] >>
  /\ companion.success = "true"

\* whole seconds a countdown from v takes: ceil(v) for a positive number
CountdownTicks(v) ==
  IF v.t = "number" /\ v.n > 0 THEN (v.n + Scale - 1) \div Scale ELSE 0

VscodeRun ==
  companion # << >> /\ companion.prog = "vscode" /\ companion.reported # "help"

\* C30: the VSCode capture tool never captures before the user has pressed
\* Enter and the countdown has finished: it shows the instructions, waits
\* for Enter, sleeps one second per countdown tick (a delay of 0 captures
\* immediately, and the countdown terminates for every delay value: the
\* ticks left are a finite number that each sleep lowers by one), then
\* captures; it reports success only when the capture function returned
\* true and a file exists at the output path, and otherwise exits with
\* status 1; on Windows or an unknown platform it exits with status 1
\* before prompting.
C30_CaptureAfterEnterAndCountdown ==
  VscodeRun =>
    LET c == companion IN
    /\ c.entered => c.shown
    /\ c.pc = "countdown" =>
         /\ c.entered
         /\ c.counter.t = "number"
         /\ c.sleeps + CountdownTicks(c.counter) = CountdownTicks(c.options.delay)
    /\ c.captured =>
         /\ c.entered
         /\ c.sleeps = CountdownTicks(c.options.delay)
    /\ (c.pc = "capture" /\ c.options.delay = Int2Num(0)) => c.sleeps = 0
    /\ (c.pc = "exited" /\ c.captured) =>
         c.exitCode = IF c.success = "true" /\ c.fileExists THEN 0 ELSE 1
    /\ (c.pc = "exited" /\ c.exitCode = 0) =>
         c.captured /\ c.success = "true" /\ c.fileExists
    /\ (c.platform \in {"windows", "unknown"} /\ c.pc # "main") =>
         /\ c.pc = "exited" /\ c.exitCode = 1
         /\ ~c.shown /\ ~c.entered /\ ~c.captured

====
